---- MODULE Spec2Model ----
(***************************************************************************)
(* Orchestration core of the DeepResearch-study repository:                *)
(*   - the deep-research graph of 01_DeepResearch_Original                 *)
(*     (clarify_with_user, write_research_brief, supervisor,               *)
(*     supervisor_tools, researcher, researcher_tools, compress_research,  *)
(*     final_report_generation);                                           *)
(*   - the self-healing loop of 03_Project_AX_Advanced (SelfHealingAgent). *)
(* A text is a sequence of chunks (strings); one chunk stands for one      *)
(* character wherever a length or a slice is taken.                        *)
(***************************************************************************)
EXTENDS Integers, Sequences, FiniteSets, TLC

VARIABLES
    \* ---- configuration of one run of the deep-research graph
    allow_clarification,            \* Configuration.allow_clarification
    max_researcher_iterations,      \* Configuration.max_researcher_iterations
    max_concurrent_research_units,  \* Configuration.max_concurrent_research_units
    \* ---- AgentState / SupervisorState
    node,                  \* the graph node that runs next ("END", "raised" when over)
    messages,              \* AgentState.messages
    research_brief,        \* AgentState.research_brief (NoBrief until written)
    supervisor_messages,   \* SupervisorState.supervisor_messages
    research_iterations,   \* SupervisorState.research_iterations
    notes,                 \* notes
    raw_notes,             \* raw_notes
    final_report,          \* AgentState.final_report (NoReport until written)
    \* ---- one dispatch round of supervisor_tools (between its two awaits)
    round_calls,           \* allowed_conduct_research_calls of the round
    round_overflow,        \* overflow_conduct_research_calls of the round
    round_thinks,          \* tool messages of the think_tool calls of the round
    tasks,                 \* research_tasks: per admitted call "running", "done" or "raised"
    tool_results,          \* per admitted call the observation its worker returned
    \* ---- final_report_generation locals
    findings, current_retry, findings_token_limit,
    telemetry,             \* compressed_research_length, raw_notes_length
    \* ---- history of the run (observations only; no action reads them)
    hist,
    \* ---- one Worker Agent run (researcher_subgraph): configuration, ResearcherState
    tools,                 \* the names get_all_tools gives
    max_react_tool_calls,  \* Configuration.max_react_tool_calls
    wnode,                 \* the node of the researcher graph that runs next
    researcher_messages,   \* ResearcherState.researcher_messages
    tool_call_iterations,  \* ResearcherState.tool_call_iterations
    tool_tasks,            \* tool_execution_tasks: "running", "done" or "raised"
    observations,          \* what each tool task returned
    compress_messages,     \* the local researcher_messages of compress_research
    synthesis_attempts,    \* the local synthesis_attempts of compress_research
    compressed_research,   \* ResearcherOutputState.compressed_research
    worker_raw_notes,      \* ResearcherOutputState.raw_notes
    whist                  \* history of the worker run (observations only)

pipeVars == <<allow_clarification, max_researcher_iterations, max_concurrent_research_units,
              node, messages, research_brief, supervisor_messages, research_iterations,
              notes, raw_notes, final_report, telemetry>>
roundVars == <<round_calls, round_overflow, round_thinks, tasks, tool_results>>
reportVars == <<findings, current_retry, findings_token_limit>>
graphVars == <<pipeVars, roundVars, reportVars, hist>>
workerVars == <<tools, max_react_tool_calls, wnode, researcher_messages, tool_call_iterations,
                tool_tasks, observations, compress_messages, synthesis_attempts,
                compressed_research, worker_raw_notes, whist>>

VARIABLES
    \* ---- one SelfHealingAgent and one invocation of self_heal
    code,                  \* self_heal's argument code
    test_command,          \* self_heal's argument test_command (None when absent)
    related_docs,          \* self_heal's argument related_docs (None when absent)
    hnode,                 \* where self_heal stands ("returned", "raised" when over)
    healing_history,       \* self.healing_history
    current_code,          \* self_heal's local current_code
    result,                \* self_heal's local result (the last ExecutionResult)
    attempt,               \* the loop variable of self_heal
    file_text,             \* the content of the file at file_path
    heal_return,           \* what the invocation returned or raised
    hhist                  \* history: what the invocation has done (observation only)

healVars == <<code, test_command, related_docs, hnode, healing_history, current_code, result,
              attempt, file_text, heal_return, hhist>>

VARIABLES
    \* ---- the asyncio.gather being awaited (by supervisor_tools or by researcher_tools)
    finished               \* the indexes of its awaitables, in the order they completed

VARIABLES
    \* ---- one call of SelfHealingAgent._classify_error
    error_message,         \* its argument
    classified             \* the ErrorType it returned ("<none>" before the return)

classifyVars == <<error_message, classified>>

VARIABLES
    \* ---- one impact analysis: a call of ImpactAnalysisCoordinator or of SpeedAnalyzer
    entry,                 \* the method called
    request,               \* its AnalysisRequest
    human_input_callback,  \* the callback given to analyze_with_human_in_loop
    cnode,                 \* where the call is
    analysis_result,       \* the AnalysisResult it holds, then returns
    events                 \* history: the calls made to the LLM, the analyzers, the callback

coordVars == <<entry, request, human_input_callback, cnode, analysis_result, events>>

VARIABLES
    \* ---- one call of SelfHealingAgent.refactor_with_tests, around its self_heal
    rnode,                 \* where the call is ("idle" when self_heal is called directly)
    refactor_return,       \* what the call returned or raised
    rhist                  \* history: test generations, LLM calls and test runs made

refactorVars == <<rnode, refactor_return, rhist>>

VARIABLES
    \* ---- the workers of one dispatch round, each a researcher_subgraph.ainvoke
    pool_calls,            \* allowed_conduct_research_calls
    pool_limit,            \* configurable.max_react_tool_calls
    pool,                  \* per worker: the state of its subgraph run
    pool_overlap           \* history: a worker has stepped while another was in its run

poolVars == <<pool_calls, pool_limit, pool, pool_overlap>>

VARIABLES
    \* ---- one SpeedAnalyzer: the building of its graph and one _find_dependencies
    program,               \* the definitions of the project's files, in parse order
    parsed,                \* how many of them the running _build_dependency_graph has parsed
    builds,                \* the calls of _build_dependency_graph made on the instance
    dependency_graph,      \* self.dependency_graph
    source_id,             \* _find_dependencies: its local source_id
    depth_limit,           \* _find_dependencies: its argument max_depth
    visited,               \* _find_dependencies: its local visited
    queue,                 \* _find_dependencies: its local queue
    dependencies,          \* _find_dependencies: its local dependencies, then its return
    snode                  \* where the analyzer is

speedVars == <<program, parsed, builds, dependency_graph, source_id, depth_limit, visited,
               queue, dependencies, snode>>

VARIABLES
    \* ---- one request through authenticate_user
    authorization,         \* the Authorization header (None when absent)
    environ,               \* os.environ: API_KEY
    users,                 \* user_store.users
    auth_return            \* what authenticate_user returned or raised

authVars == <<authorization, environ, users, auth_return>>

\* the components modelled beside the research graph, the worker and self_heal
sideVars == <<classifyVars, coordVars, refactorVars, poolVars, speedVars, authVars>>

\* those beside the four modelled first
lateVars == <<speedVars, authVars>>

ClassifyIdle ==
    /\ error_message = <<>>
    /\ classified = "idle"

CoordIdle ==
    /\ entry = "idle"
    /\ request = <<>>
    /\ human_input_callback = "None"
    /\ cnode = "idle"
    /\ analysis_result = <<>>
    /\ events = <<>>

RefactorIdle ==
    /\ rnode = "idle"
    /\ refactor_return = <<>>
    /\ rhist = <<>>

PoolIdle ==
    /\ pool_calls = <<>>
    /\ pool_limit = 0
    /\ pool = <<>>
    /\ pool_overlap = FALSE

SpeedIdle ==
    /\ program = <<>>
    /\ parsed = 0
    /\ builds = 0
    /\ dependency_graph = <<>>
    /\ source_id = <<>>
    /\ depth_limit = 0
    /\ visited = {}
    /\ queue = <<>>
    /\ dependencies = <<>>
    /\ snode = "idle"

AuthIdle ==
    /\ authorization = <<>>
    /\ environ = <<>>
    /\ users = {}
    /\ auth_return = <<>>

LateIdle == SpeedIdle /\ AuthIdle

\* none of them is in use
SideIdle == ClassifyIdle /\ CoordIdle /\ RefactorIdle /\ PoolIdle /\ LateIdle

\* ------------------------------------------------------------------ bounds
\* max_researcher_iterations ranges over 0..MaxM
MaxM == 1
\* max_concurrent_research_units ranges over 1..MaxC
MaxC == 2
\* max_react_tool_calls ranges over 1..MaxReact
MaxReact == 2
\* a worker response holds 0..MaxToolCalls tool calls
MaxToolCalls == 2
\* a planning response holds 0..MaxK ConductResearch calls, or BurstK of them
MaxK == 2
BurstK == 5
\* the model token limit ranges over 0..MaxL (0: unknown)
MaxL == 2
\* final_report_generation alone: up to MaxNotes notes of up to MaxNoteLen characters
MaxNotes == 2
MaxNoteLen == 6

\* ------------------------------------------------------------------ texts
Min(a, b) == IF a < b THEN a ELSE b
Max(a, b) == IF a > b THEN a ELSE b
Rep(n, x) == [i \in 1..n |-> x]

\* "\n".join(list)
RECURSIVE JoinLines(_)
JoinLines(list) ==
    IF Len(list) = 0 THEN <<>>
    ELSE IF Len(list) = 1 THEN list[1]
    ELSE list[1] \o <<"\n">> \o JoinLines(Tail(list))

\* text[:n] for n >= 0
Prefix(text, n) == SubSeq(text, 1, Min(n, Len(text)))

Contains(text, chunk) == \E i \in 1..Len(text) : text[i] = chunk

\* ------------------------------------------------------------------ messages
NoId == <<>>
NoBrief == <<"<no research_brief>">>
NoReport == <<"<no final_report>">>

HumanMessage(content) ==
    [type |-> "human", content |-> content, tool_calls |-> <<>>, name |-> "", tool_call_id |-> NoId,
     websearch |-> FALSE]
SystemMessage(content) ==
    [type |-> "system", content |-> content, tool_calls |-> <<>>, name |-> "", tool_call_id |-> NoId,
     websearch |-> FALSE]
AIMessage(content, calls) ==
    [type |-> "ai", content |-> content, tool_calls |-> calls, name |-> "", tool_call_id |-> NoId,
     websearch |-> FALSE]
ToolMessage(content, name, id) ==
    [type |-> "tool", content |-> content, tool_calls |-> <<>>, name |-> name, tool_call_id |-> id,
     websearch |-> FALSE]

\* the list comprehension [x for x in list if x.name == name], order kept
RECURSIVE CallsNamed(_, _)
CallsNamed(calls, name) ==
    IF calls = <<>> THEN <<>>
    ELSE (IF Head(calls).name = name THEN <<Head(calls)>> ELSE <<>>)
         \o CallsNamed(Tail(calls), name)

RECURSIVE MessagesOfTypes(_, _)
MessagesOfTypes(msgs, types) ==
    IF msgs = <<>> THEN <<>>
    ELSE (IF Head(msgs).type \in types THEN <<Head(msgs)>> ELSE <<>>)
         \o MessagesOfTypes(Tail(msgs), types)

Contents(msgs) == [i \in 1..Len(msgs) |-> msgs[i].content]

\* utils.get_notes_from_tool_calls: the contents of the tool messages of a thread
get_notes_from_tool_calls(msgs) == Contents(MessagesOfTypes(msgs, {"tool"}))

\* state.override_reducer: {"type": "override", "value": v} replaces, anything else is added
override_reducer(current_value, new_value) ==
    IF new_value.type = "override" THEN new_value.value
    ELSE current_value \o new_value.value
Override(v) == [type |-> "override", value |-> v]
Add(v) == [type |-> "add", value |-> v]

\* ------------------------------------------------------------------ history
Executed(h, n) == [h EXCEPT !.executed = @ \cup {n}]
Invoked(h, stage) == [h EXCEPT !.llm[stage] = @ + 1]
Stages == {"clarify", "brief", "supervisor", "report"}
NoRound ==
    [K |-> 0, C |-> 0, requests |-> <<>>, appended |-> <<>>, failed |-> FALSE, done |-> FALSE,
     outcomes |-> <<>>, reordered |-> FALSE, before |-> 0, plan |-> 0, raw_before |-> <<>>]
Hist0(thread) ==
    [thread0 |-> thread, executed |-> {}, llm |-> [st \in Stages |-> 0],
     decision |-> "none", raised_in |-> "",
     planning |-> 0, rounds |-> 0, started |-> <<>>, round |-> NoRound,
     all_started |-> {}, rejected |-> {}, exit |-> "none", reports |-> 0,
     L |-> 0, budgets |-> <<>>, sent |-> <<>>, report_calls |-> <<>>,
     report_notes |-> <<>>, report_raw_notes |-> <<>>]

\* ------------------------------------------------------------------ Scope Resolver
\* what the structured clarification call gives: a ClarifyWithUser decision, or the
\* error left after with_retry's attempts
ClarifyResponses ==
    { [raised |-> FALSE, need_clarification |-> n,
       question |-> <<"which period?">>, verification |-> <<"understood">>] : n \in BOOLEAN }
    \cup { [raised |-> TRUE, need_clarification |-> FALSE, question |-> <<>>, verification |-> <<>>] }

BriefResponses ==
    { [raised |-> FALSE, research_brief |-> <<"brief">>],
      [raised |-> TRUE, research_brief |-> <<>>] }

\* mutant: the failure of the call is swallowed and the node goes on
ainvoke_raises_swallowed(response) == FALSE

\* response = await ...ainvoke([...]) outside any try: the exception of the call, raised
\* after the retries of with_retry, leaves the node
ainvoke_raises(response) == response.raised

\* mutant: the clarification call is made whatever the configuration says
clarification_skipped_never(allow) == FALSE

\* if not configurable.allow_clarification
clarification_skipped(allow) == ~allow

\* mutant: a needed clarification adds the question and goes on to the brief
clarify_command_goes_on(response) ==
    [goto |-> "write_research_brief",
     messages |-> <<AIMessage(IF response.need_clarification THEN response.question
                              ELSE response.verification, <<>>)>>]

\* step 4 of clarify_with_user: the Command built from the decision
clarify_command(response) ==
    IF response.need_clarification
    THEN [goto |-> "END", messages |-> <<AIMessage(response.question, <<>>)>>]
    ELSE [goto |-> "write_research_brief",
          messages |-> <<AIMessage(response.verification, <<>>)>>]

clarify_with_user ==
    /\ node = "clarify_with_user"
    /\ IF clarification_skipped(allow_clarification)
       THEN /\ node' = "write_research_brief"
            /\ messages' = messages
            /\ hist' = Executed(hist, "clarify_with_user")
       ELSE \E response \in ClarifyResponses :
            /\ hist' = [Invoked(Executed(hist, "clarify_with_user"), "clarify") EXCEPT
                           !.decision = IF response.raised THEN "none"
                                        ELSE IF response.need_clarification THEN "need"
                                        ELSE "proceed",
                           !.raised_in = IF response.raised THEN "clarify_with_user" ELSE @]
            /\ IF ainvoke_raises(response)
               THEN node' = "raised" /\ messages' = messages
               ELSE /\ node' = clarify_command(response).goto
                    /\ messages' = messages \o clarify_command(response).messages
    /\ UNCHANGED <<allow_clarification, max_researcher_iterations,
                   max_concurrent_research_units, research_brief, supervisor_messages,
                   research_iterations, notes, raw_notes, final_report, telemetry,
                   roundVars, reportVars, workerVars, healVars, finished, sideVars>>

\* the update of write_research_brief's Command
brief_update(response) ==
    [research_brief |-> response.research_brief,
     supervisor_messages |-> Override(<<SystemMessage(<<"lead_researcher_prompt">>),
                                        HumanMessage(response.research_brief)>>)]

write_research_brief ==
    /\ node = "write_research_brief"
    /\ \E response \in BriefResponses :
        /\ hist' = [Invoked(Executed(hist, "write_research_brief"), "brief") EXCEPT
                       !.raised_in = IF response.raised THEN "write_research_brief" ELSE @]
        /\ IF ainvoke_raises(response)
           THEN /\ node' = "raised"
                /\ UNCHANGED <<research_brief, supervisor_messages>>
           ELSE /\ node' = "supervisor"
                /\ research_brief' = brief_update(response).research_brief
                /\ supervisor_messages' =
                       override_reducer(supervisor_messages,
                                        brief_update(response).supervisor_messages)
    /\ UNCHANGED <<allow_clarification, max_researcher_iterations,
                   max_concurrent_research_units, messages, research_iterations,
                   notes, raw_notes, final_report, telemetry, roundVars, reportVars, workerVars, healVars, finished, sideVars>>

\* ------------------------------------------------------------------ Supervisor Loop
\* The tool calls of one planning response: think_tool, ConductResearch and
\* ResearchComplete calls; the call at position i of planning step it has id <<it, i>>.
PlanShapes ==
    { Rep(t, "think_tool") \o Rep(k, "ConductResearch") \o Rep(c, "ResearchComplete") :
        t \in 0..1, k \in 0..MaxK, c \in 0..1 }
    \cup { Rep(k, "ConductResearch") \o <<"think_tool">> : k \in 1..MaxK }
    \cup { Rep(BurstK, "ConductResearch") }

ToolCall(name, it, i) ==
    [name |-> name, id |-> <<it, i>>,
     args |-> <<(IF name = "think_tool" THEN "reflection " ELSE "topic ")
                 \o ToString(it) \o "." \o ToString(i)>>]

PlanResponses(it) ==
    { [i \in 1..Len(shape) |-> ToolCall(shape[i], it, i)] : shape \in PlanShapes }

supervisor ==
    /\ node = "supervisor"
    /\ \E raised \in BOOLEAN :
        /\ hist' = [Invoked(Executed(hist, "supervisor"), "supervisor")
                       EXCEPT !.planning = IF raised THEN @ ELSE @ + 1,
                              !.raised_in = IF raised THEN "supervisor" ELSE @]
        /\ IF raised
           THEN /\ node' = "raised"
                /\ UNCHANGED <<supervisor_messages, research_iterations>>
           ELSE \E calls \in PlanResponses(research_iterations) :
                /\ supervisor_messages' =
                       override_reducer(supervisor_messages, Add(<<AIMessage(<<"plan">>, calls)>>))
                /\ research_iterations' = research_iterations + 1
                /\ node' = "supervisor_tools"
    /\ UNCHANGED <<allow_clarification, max_researcher_iterations,
                   max_concurrent_research_units, messages, research_brief,
                   notes, raw_notes, final_report, telemetry, roundVars, reportVars, workerVars, healVars, finished, sideVars>>

\* mutant: the cap is compared one too late
exceeded_allowed_iterations_late(iterations, maximum) == iterations > maximum + 1

\* research_iterations > configurable.max_researcher_iterations
exceeded_allowed_iterations(iterations, maximum) == iterations > maximum

no_tool_calls(message) == message.tool_calls = <<>>

\* mutant: ResearchComplete ends the loop only when nothing else is asked for
research_complete_tool_call_alone(message) ==
    /\ message.tool_calls # <<>>
    /\ \A i \in 1..Len(message.tool_calls) : message.tool_calls[i].name = "ResearchComplete"

research_complete_tool_call(message) ==
    \E i \in 1..Len(message.tool_calls) : message.tool_calls[i].name = "ResearchComplete"

\* the exit condition of step 1 of supervisor_tools
supervisor_exit(iterations, maximum, message) ==
    \/ exceeded_allowed_iterations(iterations, maximum)
    \/ no_tool_calls(message)
    \/ research_complete_tool_call(message)

\* mutant: the cap is not applied
allowed_conduct_research_calls_uncapped(calls, cap) == calls

\* mutant: one call more than the cap is admitted
allowed_conduct_research_calls_plus_one(calls, cap) == SubSeq(calls, 1, Min(cap + 1, Len(calls)))

\* conduct_research_calls[: max_concurrent_research_units]
allowed_conduct_research_calls(calls, cap) == SubSeq(calls, 1, Min(cap, Len(calls)))

\* conduct_research_calls[max_concurrent_research_units :]
overflow_conduct_research_calls(calls, cap) == SubSeq(calls, Min(cap, Len(calls)) + 1, Len(calls))

\* mutant: the acknowledgement does not carry the id of its call
think_tool_message_anonymous(call) ==
    ToolMessage(<<"Reflection recorded: ">> \o call.args, "think_tool", NoId)

\* ToolMessage(content=f"Reflection recorded: {reflection_content}", name="think_tool",
\*             tool_call_id=tool_call["id"])
think_tool_message(call) ==
    ToolMessage(<<"Reflection recorded: ">> \o call.args, "think_tool", call.id)

overflow_message(call, cap) ==
    ToolMessage(<<"Error: Did not run this research as you have already exceeded the maximum number of concurrent research units. Please try again with ",
                  ToString(cap), " or fewer research units.">>,
                "ConductResearch", call.id)

result_message(observation, call) ==
    ToolMessage(observation.compressed_research, call.name, call.id)

NoObservation == [raised |-> FALSE, compressed_research |-> <<>>, raw_notes |-> <<>>]

\* mutant: the results come in the order the awaitables completed
asyncio_as_completed(results, order) == [k \in 1..Len(results) |-> results[order[k]]]

\* await asyncio.gather(*awaitables): the results in the order of the awaitables,
\* whatever the order they completed in
asyncio_gather(results, order) == results

\* an awaitable completes after one that stands later in the list
Overtaken(order, i) == \E k \in 1..Len(order) : order[k] > i

\* what one researcher_subgraph.ainvoke gives: the worker's output state
\* (compressed_research, raw_notes) or the exception it ends with
WorkerOutcomes(call) ==
    { [raised |-> FALSE, compressed_research |-> <<"findings on ">> \o call.args,
       raw_notes |-> << <<"raw notes on ">> \o call.args >>],
      [raised |-> TRUE, compressed_research |-> <<>>, raw_notes |-> <<>>] }

\* mutant: the supervisor subgraph is wired to the end of the main graph
after_research_supervisor_end == "END"

\* deep_researcher_builder.add_edge("research_supervisor", "final_report_generation"):
\* the node that runs when the supervisor subgraph has reached its END
after_research_supervisor == "final_report_generation"

\* steps 1 and 2 of supervisor_tools, up to the await of asyncio.gather
supervisor_tools ==
    /\ node = "supervisor_tools"
    /\ LET most_recent_message == supervisor_messages[Len(supervisor_messages)]
           final_notes == get_notes_from_tool_calls(supervisor_messages)
           think_tool_calls == CallsNamed(most_recent_message.tool_calls, "think_tool")
           thinks == [i \in 1..Len(think_tool_calls) |-> think_tool_message(think_tool_calls[i])]
           conduct_research_calls == CallsNamed(most_recent_message.tool_calls, "ConductResearch")
           allowed == allowed_conduct_research_calls(conduct_research_calls,
                                                     max_concurrent_research_units)
           overflow == overflow_conduct_research_calls(conduct_research_calls,
                                                       max_concurrent_research_units)
       IN IF supervisor_exit(research_iterations, max_researcher_iterations, most_recent_message)
          THEN /\ node' = after_research_supervisor
               /\ notes' = override_reducer(notes, Add(final_notes))
               /\ raw_notes' = override_reducer(raw_notes, Add(raw_notes))
               /\ telemetry' = [compressed_research_length |-> Len(JoinLines(final_notes)),
                                raw_notes_length |-> Len(JoinLines(raw_notes))]
               /\ hist' = [Executed(hist, "supervisor_tools") EXCEPT
                              !.started = <<>>,
                              !.round = NoRound,
                              !.exit = IF \/ no_tool_calls(most_recent_message)
                                          \/ research_complete_tool_call(most_recent_message)
                                       THEN "completion" ELSE "cap"]
               /\ UNCHANGED <<supervisor_messages, roundVars>>
          ELSE /\ hist' = [Executed(hist, "supervisor_tools") EXCEPT
                              !.rounds = @ + 1,
                              !.started = [i \in 1..Len(allowed) |-> allowed[i].id],
                              !.all_started = @ \cup {allowed[i].id : i \in 1..Len(allowed)},
                              !.rejected = @ \cup {overflow[i].id : i \in 1..Len(overflow)},
                              !.round = [NoRound EXCEPT !.K = Len(conduct_research_calls),
                                                        !.requests =
                                                            [i \in 1..Len(conduct_research_calls) |->
                                                                conduct_research_calls[i].id],
                                                        !.C = max_concurrent_research_units,
                                                        !.before = Len(supervisor_messages),
                                                        !.raw_before = raw_notes,
                                                        !.plan = hist.planning,
                                                        !.done = conduct_research_calls = <<>>,
                                                        !.outcomes =
                                                            [i \in 1..Len(allowed) |-> NoObservation],
                                                        !.appended =
                                                            IF conduct_research_calls = <<>>
                                                            THEN thinks ELSE <<>>]]
               /\ IF conduct_research_calls = <<>>
                  THEN /\ supervisor_messages' = override_reducer(supervisor_messages, Add(thinks))
                       /\ node' = "supervisor"
                       /\ UNCHANGED roundVars
                  ELSE /\ round_thinks' = thinks
                       /\ round_calls' = allowed
                       /\ round_overflow' = overflow
                       /\ tasks' = [i \in 1..Len(allowed) |-> "running"]
                       /\ tool_results' = [i \in 1..Len(allowed) |-> NoObservation]
                       /\ node' = "gather"
                       /\ UNCHANGED supervisor_messages
               /\ UNCHANGED <<notes, raw_notes, telemetry>>
    /\ UNCHANGED <<allow_clarification, max_researcher_iterations,
                   max_concurrent_research_units, messages, research_brief,
                   research_iterations, final_report, reportVars, workerVars, healVars, finished, sideVars>>

\* one admitted worker (researcher_subgraph.ainvoke) runs to its end
researcher_subgraph_ainvoke ==
    /\ node = "gather"
    /\ \E i \in 1..Len(tasks) :
        /\ tasks[i] = "running"
        /\ \E observation \in WorkerOutcomes(round_calls[i]) :
            /\ tasks' = [tasks EXCEPT ![i] = IF observation.raised THEN "raised" ELSE "done"]
            /\ tool_results' = [tool_results EXCEPT ![i] = observation]
            /\ hist' = [hist EXCEPT !.round.outcomes[i] = observation,
                                    !.round.reordered = @ \/ Overtaken(finished, i)]
        /\ finished' = Append(finished, i)
    /\ UNCHANGED <<pipeVars, round_calls, round_overflow, round_thinks, reportVars, workerVars,
                   healVars, sideVars>>

\* mutant: the await ends as soon as one task has its result
gather_complete_any == \E i \in 1..Len(tasks) : tasks[i] = "done"

\* asyncio.gather resolves: with the first exception of a task, or with every result
gather_raised == \E i \in 1..Len(tasks) : tasks[i] = "raised"
gather_complete == \A i \in 1..Len(tasks) : tasks[i] = "done"

\* "\n".join(["\n".join(observation.get("raw_notes", [])) for observation in tool_results])
raw_notes_concat(results) ==
    JoinLines([i \in 1..Len(results) |-> JoinLines(results[i].raw_notes)])

\* the tool messages of a round whose workers all returned
round_tool_messages(thinks, results, allowed, overflow, cap) ==
    thinks
    \o [i \in 1..Len(allowed) |-> result_message(results[i], allowed[i])]
    \o [i \in 1..Len(overflow) |-> overflow_message(overflow[i], cap)]

\* mutant: a failed round sends the loop back to the planning step
dispatch_failure_replans(msgs) ==
    [goto |-> "supervisor", notes |-> get_notes_from_tool_calls(msgs)]

\* the Command of the except branch: the exception is of any type ("or True")
dispatch_failure_command(msgs) ==
    [goto |-> "END", notes |-> get_notes_from_tool_calls(msgs)]

\* the rest of supervisor_tools, from the return of asyncio.gather
supervisor_tools_gather ==
    /\ node = "gather"
    /\ gather_raised \/ gather_complete
    /\ IF gather_raised
       THEN LET command == dispatch_failure_command(supervisor_messages)
            IN /\ node' = IF command.goto = "END" THEN after_research_supervisor
                          ELSE command.goto
               /\ notes' = override_reducer(notes, Add(command.notes))
               /\ hist' = [hist EXCEPT !.round.failed = TRUE, !.round.done = TRUE,
                                       !.exit = "failure"]
               /\ UNCHANGED <<supervisor_messages, raw_notes, telemetry>>
       ELSE LET results == asyncio_gather(tool_results, finished)
                all_tool_messages ==
                    round_tool_messages(round_thinks, results, round_calls,
                                        round_overflow, max_concurrent_research_units)
                concat == raw_notes_concat(results)
            IN /\ node' = "supervisor"
               /\ supervisor_messages' = override_reducer(supervisor_messages, Add(all_tool_messages))
               /\ raw_notes' = IF concat # <<>>
                               THEN override_reducer(raw_notes, Add(<<concat>>))
                               ELSE raw_notes
               /\ telemetry' = IF concat # <<>>
                               THEN [telemetry EXCEPT !.raw_notes_length = Len(concat)]
                               ELSE telemetry
               /\ notes' = notes
               /\ hist' = [hist EXCEPT !.round.done = TRUE, !.round.appended = all_tool_messages]
    /\ round_calls' = <<>>
    /\ round_overflow' = <<>>
    /\ round_thinks' = <<>>
    /\ tasks' = <<>>
    /\ tool_results' = <<>>
    /\ finished' = <<>>
    /\ UNCHANGED <<allow_clarification, max_researcher_iterations,
                   max_concurrent_research_units, messages, research_brief,
                   research_iterations, final_report, reportVars, workerVars, healVars, sideVars>>

\* ------------------------------------------------------------------ Final Synthesizer
\* max_retries = 3
max_retries == 3

\* get_model_token_limit gave None (or 0): "if not model_token_limit"
NoLimit == 0

\* mutant: the retry keeps the budget it had
shrink_limit_kept(limit) == limit

\* int(findings_token_limit * 0.9): the double product of an integer below 2^53 and
\* 0.9 lies within one ulp of 9x/10, never across an integer, so int() gives the floor
shrink_limit(limit) == (limit * 9) \div 10

\* the budget set on a length-limit failure, current_retry already incremented
next_findings_token_limit(retry, model_token_limit, limit) ==
    IF retry = 1 THEN model_token_limit * 4 ELSE shrink_limit(limit)

\* findings[:findings_token_limit]
truncate_findings(text, limit) == Prefix(text, limit)

\* mutant: the return adds an empty list to the notes
report_return_appending(report, message) ==
    [final_report |-> report, messages |-> <<AIMessage(message, <<>>)>>,
     notes |-> Add(<<>>)]

\* cleared_state and the two lengths every return of final_report_generation carries
report_return(report, message) ==
    [final_report |-> report, messages |-> <<AIMessage(message, <<>>)>>,
     notes |-> Override(<<>>)]

\* steps 1 and 2 of final_report_generation
final_report_generation ==
    /\ node = "final_report_generation"
    /\ findings' = JoinLines(notes)
    /\ telemetry' = [compressed_research_length |-> Len(JoinLines(notes)),
                     raw_notes_length |-> Len(JoinLines(raw_notes))]
    /\ current_retry' = 0
    /\ findings_token_limit' = NoLimit
    /\ node' = "final_report_llm"
    /\ hist' = [Executed(hist, "final_report_generation") EXCEPT
                    !.reports = @ + 1, !.report_notes = notes, !.report_raw_notes = raw_notes]
    /\ UNCHANGED <<allow_clarification, max_researcher_iterations,
                   max_concurrent_research_units, messages, research_brief,
                   supervisor_messages, research_iterations, notes, raw_notes,
                   final_report, roundVars, workerVars, healVars, finished, sideVars>>

ReportOutcomes == {"ok", "token_limit", "other"}

\* str(e) of an exception that is not a token-limit error
OtherError == <<"other error">>

\* mutant: the loop ends one pass earlier
loop_continues_below(retry) == retry < max_retries

\* while current_retry <= max_retries
loop_continues(retry) == retry <= max_retries

\* mutant: the non-limit failure is reported as exhausted retries
error_report_exhausted(e) == <<"Error generating final report: Maximum retries exceeded">>

\* f"Error generating final report: {e}"
error_report(e) == <<"Error generating final report: ">> \o e

retries_exceeded_report == <<"Error generating final report: Maximum retries exceeded">>

\* one pass of the while loop of step 3, and step 4 when the loop ends with it
final_report_llm ==
    /\ node = "final_report_llm"
    /\ \E outcome \in ReportOutcomes, model_token_limit \in 0..MaxL :
        LET retry == current_retry + 1
            limit == next_findings_token_limit(retry, model_token_limit, findings_token_limit)
            unknown == retry = 1 /\ model_token_limit = NoLimit
            ret == CASE outcome = "ok" -> report_return(<<"report">>, <<"report">>)
                     [] outcome = "other" ->
                            report_return(error_report(OtherError),
                                          <<"Report generation failed due to an error">>)
                     [] outcome = "token_limit" /\ unknown ->
                            report_return(<<"Error generating final report: Token limit exceeded, however, we could not determine the model's maximum context length.">>,
                                          <<"Report generation failed due to token limits">>)
                     [] OTHER ->
                            report_return(retries_exceeded_report,
                                          <<"Report generation failed after maximum retries">>)
            returns == outcome # "token_limit" \/ unknown \/ ~loop_continues(retry)
        IN /\ (outcome # "token_limit" \/ current_retry > 0) => model_token_limit = hist.L
           /\ hist' = [Invoked(hist, "report") EXCEPT
                          !.sent = Append(@, Len(findings)),
                          !.report_calls = Append(@, outcome),
                          !.L = IF outcome = "token_limit" THEN model_token_limit ELSE @,
                          !.budgets = IF outcome = "token_limit" /\ ~unknown
                                      THEN Append(@, limit) ELSE @]
           /\ IF outcome = "token_limit"
              THEN /\ current_retry' = retry
                   /\ findings_token_limit' = IF unknown THEN findings_token_limit ELSE limit
                   /\ findings' = IF unknown THEN findings ELSE truncate_findings(findings, limit)
              ELSE UNCHANGED <<current_retry, findings_token_limit, findings>>
           /\ IF returns
              THEN /\ node' = "END"
                   /\ final_report' = ret.final_report
                   /\ messages' = messages \o ret.messages
                   /\ notes' = override_reducer(notes, ret.notes)
              ELSE UNCHANGED <<node, final_report, messages, notes>>
    /\ UNCHANGED <<allow_clarification, max_researcher_iterations,
                   max_concurrent_research_units, research_brief, supervisor_messages,
                   research_iterations, raw_notes, telemetry, roundVars, workerVars, healVars, finished, sideVars>>

\* ------------------------------------------------------------------ the graph
\* no Worker Agent run is observed
\* no self_heal invocation
HealIdle ==
    /\ code = <<>>
    /\ test_command = <<>>
    /\ related_docs = <<>>
    /\ hnode = "idle"
    /\ healing_history = <<>>
    /\ current_code = <<>>
    /\ result = <<>>
    /\ attempt = 0
    /\ file_text = <<>>
    /\ heal_return = <<>>
    /\ hhist = <<>>

WorkerIdle ==
    /\ tools = {}
    /\ max_react_tool_calls = 0
    /\ wnode = "idle"
    /\ researcher_messages = <<>>
    /\ tool_call_iterations = 0
    /\ tool_tasks = <<>>
    /\ observations = <<>>
    /\ compress_messages = <<>>
    /\ synthesis_attempts = 0
    /\ compressed_research = <<>>
    /\ worker_raw_notes = <<>>
    /\ whist = <<>>

UserThreads ==
    { <<HumanMessage(<<"research request">>)>>,
      <<HumanMessage(<<"research request">>), AIMessage(<<"which period?">>, <<>>),
        HumanMessage(<<"the last decade">>)>> }

Init ==
    /\ allow_clarification \in BOOLEAN
    /\ max_researcher_iterations \in 0..MaxM
    /\ max_concurrent_research_units \in 1..MaxC
    /\ node = "clarify_with_user"
    /\ messages \in UserThreads
    /\ research_brief = NoBrief
    /\ supervisor_messages = <<>>
    /\ research_iterations = 0
    /\ notes = <<>>
    /\ raw_notes = <<>>
    /\ final_report = NoReport
    /\ telemetry = [compressed_research_length |-> 0, raw_notes_length |-> 0]
    /\ round_calls = <<>>
    /\ round_overflow = <<>>
    /\ round_thinks = <<>>
    /\ tasks = <<>>
    /\ tool_results = <<>>
    /\ findings = <<>>
    /\ current_retry = 0
    /\ findings_token_limit = NoLimit
    /\ hist = Hist0(messages)
    /\ WorkerIdle
    /\ HealIdle
    /\ finished = <<>>
    /\ SideIdle

Next ==
    \/ clarify_with_user
    \/ write_research_brief
    \/ supervisor
    \/ supervisor_tools
    \/ researcher_subgraph_ainvoke
    \/ supervisor_tools_gather
    \/ final_report_generation
    \/ final_report_llm

vars == <<graphVars, workerVars, healVars, finished, sideVars>>

Spec == Init /\ [][Next]_vars

\* ------------------------------------------------------------------ claims on the graph
LastPlan == supervisor_messages[Len(supervisor_messages)]

\* C1: for every max_researcher_iterations M the Supervisor Loop has left its loop after
\* at most M+1 planning steps and at most M dispatch rounds, whatever the planning
\* responses are; research_iterations starts at 0 and counts the planning steps.
C1_BoundedSupervisorLoop ==
    /\ research_iterations = hist.planning
    /\ hist.llm["supervisor"] <= max_researcher_iterations + 1
    /\ hist.planning <= max_researcher_iterations + 1
    /\ hist.rounds <= max_researcher_iterations
    /\ node \in {"supervisor", "gather"} => research_iterations <= max_researcher_iterations
    /\ "supervisor" \notin hist.executed => research_iterations = 0

\* the loop was ended by the cap alone: the last response asked for delegations only
C1_Witness ==
    /\ node = "final_report_generation"
    /\ max_researcher_iterations = MaxM
    /\ hist.planning = max_researcher_iterations + 1
    /\ hist.rounds = max_researcher_iterations
    /\ LastPlan.type = "ai"
    /\ LastPlan.tool_calls # <<>>
    /\ \A i \in 1..Len(LastPlan.tool_calls) : LastPlan.tool_calls[i].name = "ConductResearch"

RECURSIVE MessagesNamed(_, _)
MessagesNamed(msgs, name) ==
    IF msgs = <<>> THEN <<>>
    ELSE (IF Head(msgs).name = name THEN <<Head(msgs)>> ELSE <<>>)
         \o MessagesNamed(Tail(msgs), name)

IsRejection(m) ==
    /\ Len(m.content) = 3
    /\ m.content[1] = overflow_message([id |-> NoId], 0).content[1]

RoundOver == hist.round.done /\ hist.round.K > 0

RoundAdmission ==
    LET r == hist.round
        cr == MessagesNamed(r.appended, "ConductResearch")
        admitted == Min(r.K, r.C)
    IN /\ Len(cr) = r.K
       /\ \A i \in 1..admitted : ~IsRejection(cr[i])
       /\ \A i \in (admitted + 1)..r.K :
             /\ IsRejection(cr[i])
             /\ Contains(cr[i].content, ToString(r.C))
             /\ \A j \in 1..Len(hist.started) : hist.started[j] # cr[i].tool_call_id
       /\ node = "supervisor" =>
             SubSeq(supervisor_messages, Len(supervisor_messages) - Len(r.appended) + 1,
                    Len(supervisor_messages)) = r.appended

RoundStarted ==
    /\ hist.started = SubSeq(hist.round.requests, 1, Min(hist.round.K, hist.round.C))
    /\ \A i, j \in 1..Len(hist.started) : hist.started[i] = hist.started[j] => i = j

\* C3 as stated: a dispatch round of K ConductResearch requests under cap C starts a
\* worker for exactly the first min(K, C) requests, rejects the other max(K - C, 0)
\* with a text holding C, and yields exactly K ConductResearch results.
C3_Original == RoundOver => RoundStarted /\ RoundAdmission

\* C3 amended: the same when every admitted worker returns; when an admitted worker
\* raises, the workers were started all the same and the round yields no tool result.
C3_AdmissionControl ==
    RoundOver =>
        /\ RoundStarted
        /\ IF hist.round.failed THEN hist.round.appended = <<>> ELSE RoundAdmission

\* the oversubscribed round of the spec: cap 2, 5 requests, 2 workers, 3 rejections
C3_Witness ==
    /\ RoundOver
    /\ ~hist.round.failed
    /\ hist.round.C = 2
    /\ hist.round.K = 5
    /\ Len(hist.started) = 2
    /\ Len(hist.round.appended) = 5
    /\ \A i \in 3..5 : IsRejection(hist.round.appended[i])
                       /\ Contains(hist.round.appended[i].content, "2")

Untouched ==
    /\ research_brief = NoBrief
    /\ supervisor_messages = <<>>
    /\ research_iterations = 0
    /\ notes = <<>>
    /\ raw_notes = <<>>
    /\ final_report = NoReport
    /\ telemetry = [compressed_research_length |-> 0, raw_notes_length |-> 0]

\* C6: once the clarification decision says need_clarification, the run is over at
\* clarify_with_user: no other node has run or runs, no research_brief exists, and the
\* state differs from the initial one by one assistant message, the question.
C6_ClarificationHalts ==
    hist.decision = "need" =>
        /\ node = "END"
        /\ hist.executed = {"clarify_with_user"}
        /\ hist.planning = 0 /\ hist.rounds = 0 /\ hist.started = <<>>
        /\ \A st \in Stages \ {"clarify"} : hist.llm[st] = 0
        /\ Untouched
        /\ Len(messages) = Len(hist.thread0) + 1
        /\ SubSeq(messages, 1, Len(hist.thread0)) = hist.thread0
        /\ messages[Len(messages)].type = "ai"
        /\ \E r \in ClarifyResponses : messages[Len(messages)].content = r.question /\ ~r.raised

C6_Witness == hist.decision = "need" /\ node = "END" /\ Len(messages) = 2

RunOver == node \in {"END", "raised"}

SkipsClarification ==
    /\ hist.llm["clarify"] = 0
    /\ hist.decision = "none"
    /\ node # "END" => messages = hist.thread0
    /\ "write_research_brief" \notin hist.executed =>
           node \in {"clarify_with_user", "write_research_brief"} /\ Untouched

\* C7 as stated: with allow_clarification = false clarify_with_user calls no LLM, adds
\* no message and routes to write_research_brief, which produces the research brief in
\* that run.
C7_Original ==
    ~allow_clarification =>
        /\ SkipsClarification
        /\ RunOver => research_brief # NoBrief

\* C7 amended: ... write_research_brief produces the research brief in that run unless
\* its own LLM call fails after the retries, and then the run ends with that error and
\* without a brief.
C7_ClarificationSkipped ==
    ~allow_clarification =>
        /\ SkipsClarification
        /\ "write_research_brief" \in hist.executed =>
              IF hist.raised_in = "write_research_brief"
              THEN node = "raised" /\ research_brief = NoBrief
              ELSE research_brief \in {r.research_brief : r \in {b \in BriefResponses : ~b.raised}}

C7_Witness ==
    /\ ~allow_clarification
    /\ node = "supervisor"
    /\ hist.executed = {"clarify_with_user", "write_research_brief"}
    /\ research_brief # NoBrief
    /\ Len(hist.thread0) = 3

\* ------------------------------------------------------------------ final_report_generation alone
\* the notes handed to final_report_generation: each note the text "1 2 ... n"
ReportNotes ==
    { Rep(j, [i \in 1..n |-> ToString(i)]) : j \in 0..MaxNotes, n \in 0..MaxNoteLen }

\* the raw notes in the state at that point
ReportRawNotes == { <<>>, <<<<"r", "a", "w">>>>, <<<<"r", "a", "w">>, <<"r", "a", "w">>>> }

InitReport ==
    /\ allow_clarification = FALSE
    /\ max_researcher_iterations = 0
    /\ max_concurrent_research_units = 1
    /\ node = "final_report_generation"
    /\ messages \in UserThreads
    /\ research_brief = <<"brief">>
    /\ supervisor_messages = <<>>
    /\ research_iterations = 0
    /\ notes \in ReportNotes
    /\ raw_notes \in ReportRawNotes
    /\ final_report = NoReport
    /\ telemetry = [compressed_research_length |-> 0, raw_notes_length |-> 0]
    /\ round_calls = <<>>
    /\ round_overflow = <<>>
    /\ round_thinks = <<>>
    /\ tasks = <<>>
    /\ tool_results = <<>>
    /\ findings = <<>>
    /\ current_retry = 0
    /\ findings_token_limit = NoLimit
    /\ hist = Hist0(messages)
    /\ WorkerIdle
    /\ HealIdle
    /\ finished = <<>>
    /\ SideIdle

NextReport == final_report_generation \/ final_report_llm

SpecReport == InitReport /\ [][NextReport]_vars

\* C5: with a known model token limit L the character budget set at the first
\* length-limit failure is 4 * L; every further length-limit failure sets the budget to
\* 90% of the previous one, rounded down, which is strictly smaller; and the findings
\* sent on the attempt after a failure have at most that many characters.
C5_TruncationBudget ==
    LET b == hist.budgets
    IN /\ Len(b) <= max_retries + 1
       /\ Len(b) >= 1 => hist.L > 0 /\ b[1] = 4 * hist.L
       /\ \A i \in 2..Len(b) :
             /\ 10 * b[i] <= 9 * b[i - 1]
             /\ 9 * b[i - 1] < 10 * b[i] + 10
             /\ b[i] < b[i - 1]
       /\ \A i \in 1..Len(b) : i + 1 <= Len(hist.sent) => hist.sent[i + 1] <= b[i]
       /\ Len(b) >= 1 =>
             /\ findings_token_limit = b[Len(b)]
             /\ node = "final_report_llm" => Len(findings) <= b[Len(b)]

\* three length-limit failures in a row, each cutting the findings further
C5_Witness ==
    /\ Len(hist.budgets) = 3
    /\ Len(hist.sent) = 3
    /\ hist.sent[1] > hist.budgets[1]
    /\ hist.sent[2] = hist.budgets[1]
    /\ hist.sent[3] = hist.budgets[2]
    /\ Len(findings) = hist.budgets[3]
    /\ hist.budgets[1] = 8

\* ------------------------------------------------------------------ Worker Agent
AllTools == {"web_search", "think_tool", "ResearchComplete"}

\* the tool calls of one worker response: web_search and think_tool calls in turn, a
\* ResearchComplete call, or a call of a tool that get_all_tools does not give
WorkerShapes ==
    { [i \in 1..n |-> IF i % 2 = 1 THEN "web_search" ELSE "think_tool"] : n \in 0..MaxToolCalls }
    \cup { <<"ResearchComplete">>, <<"web_search", "ResearchComplete">>, <<"mcp_tool">> }

WorkerCall(name, it, i) ==
    [name |-> name, id |-> <<it, i>>, args |-> <<"query " \o ToString(it) \o "." \o ToString(i)>>]

\* the responses of the acting step: text or none, tool calls, or a provider-side
\* ("native") web search without tool calls
WorkerResponses(it) ==
    { AIMessage(content, [i \in 1..Len(shape) |-> WorkerCall(shape[i], it, i)]) :
        content \in {<<>>, <<"thought ", ToString(it)>>}, shape \in WorkerShapes }
    \cup { [AIMessage(<<"searched">>, <<>>) EXCEPT !.websearch = TRUE] }

\* what tool.ainvoke gives: a result, or an exception with its message
ToolOutcomes(call) ==
    { [raised |-> FALSE, text |-> <<"result of ", call.name, call.args[1]>>],
      [raised |-> TRUE, text |-> <<"connection reset ", call.args[1]>>] }

NoOutcome == [raised |-> FALSE, text |-> <<>>]

WHist0 ==
    [llm |-> 0, rounds |-> 0, invoked |-> 0, raised_in |-> "", exception |-> "",
     round |-> [calls |-> <<>>, outcomes |-> <<>>, appended |-> <<>>, done |-> FALSE,
                reordered |-> FALSE],
     compress_entries |-> 0, compress_llm |-> 0, compress_failures |-> 0,
     input_thread |-> <<>>, attempt_threads |-> <<>>, attempt_outcomes |-> <<>>]

WorkerConfigUnchanged == UNCHANGED <<tools, max_react_tool_calls>>

\* mutant: the toolset is not looked at
no_tools_found_never(toolset) == FALSE

\* if len(tools) == 0: raise ValueError("No tools found to conduct research: ...")
no_tools_found(toolset) == Cardinality(toolset) = 0

\* the acting step
researcher ==
    /\ wnode = "researcher"
    /\ IF no_tools_found(tools)
       THEN /\ wnode' = "raised"
            /\ whist' = [whist EXCEPT !.raised_in = "researcher", !.exception = "ValueError"]
            /\ UNCHANGED <<researcher_messages, tool_call_iterations>>
       ELSE \E raised \in BOOLEAN :
            /\ whist' = [whist EXCEPT !.llm = @ + 1,
                                      !.raised_in = IF raised THEN "researcher" ELSE @,
                                      !.exception = IF raised THEN "LLMError" ELSE @]
            /\ IF raised
               THEN /\ wnode' = "raised"
                    /\ UNCHANGED <<researcher_messages, tool_call_iterations>>
               ELSE \E response \in WorkerResponses(tool_call_iterations) :
                    /\ researcher_messages' = Append(researcher_messages, response)
                    /\ tool_call_iterations' = tool_call_iterations + 1
                    /\ wnode' = "researcher_tools"
    /\ WorkerConfigUnchanged
    /\ UNCHANGED <<tool_tasks, observations, compress_messages, synthesis_attempts,
                   compressed_research, worker_raw_notes, graphVars, healVars, finished, sideVars>>

\* mutant: the exception of a tool is passed on
execute_tool_unsafely(outcome) == outcome

\* execute_tool_safely: the result of the tool, or the text of its exception
execute_tool_safely(outcome) ==
    IF outcome.raised
    THEN [raised |-> FALSE, text |-> <<"Error executing tool: ">> \o outcome.text]
    ELSE outcome

\* tool_call_iterations >= configurable.max_react_tool_calls
exceeded_iterations(iterations, maximum) == iterations >= maximum

research_complete_called(message) ==
    \E i \in 1..Len(message.tool_calls) : message.tool_calls[i].name = "ResearchComplete"

\* researcher_tools up to the await of asyncio.gather
researcher_tools ==
    /\ wnode = "researcher_tools"
    /\ LET most_recent_message == researcher_messages[Len(researcher_messages)]
           has_tool_calls == most_recent_message.tool_calls # <<>>
           has_native_search == most_recent_message.websearch
           tool_calls == most_recent_message.tool_calls
           known == \A i \in 1..Len(tool_calls) : tool_calls[i].name \in tools
       IN IF ~has_tool_calls /\ ~has_native_search
          THEN /\ wnode' = "compress_research"
               /\ whist' = [whist EXCEPT !.round = WHist0.round]
               /\ UNCHANGED <<tool_tasks, observations>>
          ELSE IF ~known
          THEN \* tools_by_name[tool_call["name"]] raises KeyError; no tool has run
               /\ wnode' = "raised"
               /\ whist' = [whist EXCEPT !.raised_in = "researcher_tools",
                                         !.exception = "KeyError",
                                         !.round = WHist0.round]
               /\ UNCHANGED <<tool_tasks, observations>>
          ELSE /\ wnode' = "tools_gather"
               /\ tool_tasks' = [i \in 1..Len(tool_calls) |-> "running"]
               /\ observations' = [i \in 1..Len(tool_calls) |-> NoOutcome]
               /\ whist' = [whist EXCEPT !.rounds = @ + 1,
                                         !.round = [calls |-> tool_calls,
                                                    outcomes |-> [i \in 1..Len(tool_calls) |-> NoOutcome],
                                                    appended |-> <<>>, done |-> FALSE,
                                                    reordered |-> FALSE]]
    /\ WorkerConfigUnchanged
    /\ UNCHANGED <<researcher_messages, tool_call_iterations, compress_messages,
                   synthesis_attempts, compressed_research, worker_raw_notes, graphVars, healVars, finished, sideVars>>

\* one tool task (execute_tool_safely around tool.ainvoke) runs to its end
execute_tool_task ==
    /\ wnode = "tools_gather"
    /\ \E i \in 1..Len(tool_tasks) :
        /\ tool_tasks[i] = "running"
        /\ \E outcome \in ToolOutcomes(whist.round.calls[i]) :
            /\ observations' = [observations EXCEPT ![i] = execute_tool_safely(outcome)]
            /\ tool_tasks' = [tool_tasks EXCEPT ![i] =
                                 IF execute_tool_safely(outcome).raised THEN "raised" ELSE "done"]
            /\ whist' = [whist EXCEPT !.round.outcomes[i] = outcome, !.invoked = @ + 1,
                                      !.round.reordered = @ \/ Overtaken(finished, i)]
        /\ finished' = Append(finished, i)
    /\ WorkerConfigUnchanged
    /\ UNCHANGED <<wnode, researcher_messages, tool_call_iterations, compress_messages,
                   synthesis_attempts, compressed_research, worker_raw_notes, graphVars, healVars, sideVars>>

\* the ToolMessage list built from observations and tool_calls, zipped
tool_outputs(obs, tool_calls) ==
    [i \in 1..Len(tool_calls) |->
        ToolMessage(obs[i].text, tool_calls[i].name, tool_calls[i].id)]

\* the rest of researcher_tools, from the return of asyncio.gather
researcher_tools_gather ==
    /\ wnode = "tools_gather"
    /\ LET tools_raised == \E i \in 1..Len(tool_tasks) : tool_tasks[i] = "raised"
           tools_complete == \A i \in 1..Len(tool_tasks) : tool_tasks[i] = "done"
           most_recent_message == researcher_messages[Len(researcher_messages)]
           outputs == tool_outputs(asyncio_gather(observations, finished),
                                   most_recent_message.tool_calls)
       IN /\ tools_raised \/ tools_complete
          /\ IF tools_raised
             THEN /\ wnode' = "raised"
                  /\ whist' = [whist EXCEPT !.raised_in = "researcher_tools", !.round.done = TRUE]
                  /\ UNCHANGED researcher_messages
             ELSE /\ researcher_messages' = researcher_messages \o outputs
                  /\ whist' = [whist EXCEPT !.round.done = TRUE, !.round.appended = outputs]
                  /\ wnode' = IF \/ exceeded_iterations(tool_call_iterations, max_react_tool_calls)
                                 \/ research_complete_called(most_recent_message)
                              THEN "compress_research" ELSE "researcher"
    /\ tool_tasks' = <<>>
    /\ observations' = <<>>
    /\ finished' = <<>>
    /\ WorkerConfigUnchanged
    /\ UNCHANGED <<tool_call_iterations, compress_messages, synthesis_attempts,
                   compressed_research, worker_raw_notes, graphVars, healVars, sideVars>>

\* ------------------------------------------------------------------ Compressor
\* mutant: one attempt more
max_attempts_four == 3 + 1

\* max_attempts = 3
max_attempts == 3

CompressionSentinel == <<"Error synthesizing research report: Maximum retries exceeded">>

compress_research_simple_human_message == HumanMessage(<<"compress_research_simple_human_message">>)

\* utils.remove_up_to_last_ai_message: the thread before its last assistant message,
\* or the whole thread when it holds none
remove_up_to_last_ai_message(msgs) ==
    LET ai == { i \in 1..Len(msgs) : msgs[i].type = "ai" }
    IN IF ai = {} THEN msgs
       ELSE SubSeq(msgs, 1, (CHOOSE i \in ai : \A j \in ai : j <= i) - 1)

\* "\n".join(str(m.content) for m in filter_messages(thread, include_types=["tool", "ai"]))
raw_notes_content(msgs) == JoinLines(Contents(MessagesOfTypes(msgs, {"tool", "ai"})))

\* steps 1 and 2 of compress_research
compress_research ==
    /\ wnode = "compress_research"
    /\ compress_messages' = Append(researcher_messages, compress_research_simple_human_message)
    /\ synthesis_attempts' = 0
    /\ wnode' = "compress_llm"
    /\ whist' = [whist EXCEPT !.compress_entries = @ + 1, !.input_thread = researcher_messages]
    /\ WorkerConfigUnchanged
    /\ UNCHANGED <<researcher_messages, tool_call_iterations, tool_tasks, observations,
                   compressed_research, worker_raw_notes, graphVars, healVars, finished, sideVars>>

CompressOutcomes == {"ok", "token_limit", "other"}

\* mutant: the thread is cut after every failure
thread_after_failure_always(outcome, msgs) == remove_up_to_last_ai_message(msgs)

\* the thread the next attempt works on after a failed one
thread_after_failure(outcome, msgs) ==
    IF outcome = "token_limit" THEN remove_up_to_last_ai_message(msgs) ELSE msgs

\* one pass of the while loop of step 3, and step 4 when the loop ends with it
compress_research_llm ==
    /\ wnode = "compress_llm"
    /\ \E outcome \in CompressOutcomes :
        LET attempts == synthesis_attempts + 1
            thread == thread_after_failure(outcome, compress_messages)
        IN /\ whist' = [whist EXCEPT !.compress_llm = @ + 1,
                                     !.compress_failures = IF outcome = "ok" THEN @ ELSE @ + 1,
                                     !.attempt_threads = Append(@, compress_messages),
                                     !.attempt_outcomes = Append(@, outcome)]
           /\ IF outcome = "ok"
              THEN /\ compressed_research' = <<"condensed">>
                   /\ worker_raw_notes' = <<raw_notes_content(compress_messages)>>
                   /\ wnode' = "END"
                   /\ UNCHANGED <<synthesis_attempts, compress_messages>>
              ELSE /\ synthesis_attempts' = attempts
                   /\ compress_messages' = thread
                   /\ IF attempts < max_attempts
                      THEN UNCHANGED <<wnode, compressed_research, worker_raw_notes>>
                      ELSE /\ compressed_research' = CompressionSentinel
                           /\ worker_raw_notes' = <<raw_notes_content(thread)>>
                           /\ wnode' = "END"
    /\ WorkerConfigUnchanged
    /\ UNCHANGED <<researcher_messages, tool_call_iterations, tool_tasks, observations,
                   graphVars, healVars, finished, sideVars>>

\* ------------------------------------------------------------------ one Worker Agent run
\* no run of the deep-research graph is observed
GraphIdle ==
    /\ allow_clarification = FALSE
    /\ max_researcher_iterations = 0
    /\ max_concurrent_research_units = 1
    /\ node = "idle"
    /\ messages = <<>>
    /\ research_brief = NoBrief
    /\ supervisor_messages = <<>>
    /\ research_iterations = 0
    /\ notes = <<>>
    /\ raw_notes = <<>>
    /\ final_report = NoReport
    /\ telemetry = [compressed_research_length |-> 0, raw_notes_length |-> 0]
    /\ round_calls = <<>>
    /\ round_overflow = <<>>
    /\ round_thinks = <<>>
    /\ tasks = <<>>
    /\ tool_results = <<>>
    /\ findings = <<>>
    /\ current_retry = 0
    /\ findings_token_limit = NoLimit
    /\ hist = <<>>

\* the input of researcher_subgraph.ainvoke: the topic as the only message
InitWorker ==
    /\ GraphIdle
    /\ HealIdle
    /\ finished = <<>>
    /\ SideIdle
    /\ tools \in {{}, AllTools}
    /\ max_react_tool_calls \in 1..MaxReact
    /\ wnode = "researcher"
    /\ researcher_messages = <<HumanMessage(<<"topic 1.1">>)>>
    /\ tool_call_iterations = 0
    /\ tool_tasks = <<>>
    /\ observations = <<>>
    /\ compress_messages = <<>>
    /\ synthesis_attempts = 0
    /\ compressed_research = <<>>
    /\ worker_raw_notes = <<>>
    /\ whist = WHist0

NextWorker ==
    \/ researcher
    \/ researcher_tools
    \/ execute_tool_task
    \/ researcher_tools_gather
    \/ compress_research
    \/ compress_research_llm

SpecWorker == InitWorker /\ [][NextWorker]_vars

\* ------------------------------------------------------------------ claims on the worker
HasContent(msgs) ==
    \E i \in 1..Len(msgs) : msgs[i].type \in {"tool", "ai"} /\ msgs[i].content # <<>>

\* C4: whatever the Compressor's failures are, the raw_notes string compress_research
\* returns is non-empty whenever its input thread held a tool-result or assistant
\* message with non-empty content.
C4_RawNotesPreserved ==
    wnode = "END" /\ HasContent(whist.input_thread) =>
        /\ Len(worker_raw_notes) = 1
        /\ worker_raw_notes[1] # <<>>

\* C8: in a tool round of N calls, a call whose tool raises yields the text
\* "Error executing tool: <message>", every other call its normal result; exactly N
\* tool messages are appended to the worker's thread and the worker does not raise.
C8_ToolFanOutIsolation ==
    whist.round.done =>
        LET r == whist.round
            N == Len(r.calls)
        IN /\ whist.raised_in # "researcher_tools"
           /\ Len(r.appended) = N
           /\ \A i \in 1..N :
                 /\ r.appended[i].type = "tool"
                 /\ r.appended[i].tool_call_id = r.calls[i].id
                 /\ r.appended[i].content =
                        IF r.outcomes[i].raised
                        THEN <<"Error executing tool: ">> \o r.outcomes[i].text
                        ELSE r.outcomes[i].text
           /\ wnode \in {"researcher", "compress_research"} =>
                 SubSeq(researcher_messages, Len(researcher_messages) - N + 1,
                        Len(researcher_messages)) = r.appended

\* a round of two calls of which exactly one raised
C8_Witness ==
    /\ whist.round.done
    /\ Len(whist.round.calls) = 2
    /\ whist.round.outcomes[1].raised
    /\ ~whist.round.outcomes[2].raised
    /\ Len(whist.round.appended) = 2
    /\ wnode = "researcher"

\* C10: compress_research returns for every sequence of LLM-call outcomes: it calls the
\* LLM at most 3 times, and after 3 failed attempts the condensed text is the sentinel
\* "Error synthesizing research report: Maximum retries exceeded".
C10_CompressBounded ==
    /\ whist.compress_llm <= 3
    /\ whist.raised_in # "compress_research"
    /\ wnode = "compress_llm" => whist.compress_failures < 3 /\ whist.compress_llm < 3
    /\ whist.compress_failures = 3 =>
          /\ wnode = "END"
          /\ compressed_research =
                 <<"Error synthesizing research report: Maximum retries exceeded">>
          /\ compressed_research # <<>>
          /\ Len(worker_raw_notes) = 1
    /\ wnode = "END" => whist.compress_entries = 1 /\ whist.compress_llm >= 1

\* three failed attempts of both kinds
C10_Witness ==
    /\ wnode = "END"
    /\ whist.compress_failures = 3
    /\ whist.compress_llm = 3
    /\ compressed_research = CompressionSentinel
    /\ Len(whist.attempt_threads[3]) < Len(whist.attempt_threads[1])


\* ------------------------------------------------------------------ the two fan-outs
\* a run of the main graph, or a run of the researcher subgraph on its own
InitRounds == Init \/ InitWorker

NextRounds ==
    \/ clarify_with_user
    \/ write_research_brief
    \/ supervisor
    \/ supervisor_tools
    \/ researcher_subgraph_ainvoke
    \/ supervisor_tools_gather
    \/ final_report_generation
    \/ final_report_llm
    \/ researcher
    \/ researcher_tools
    \/ execute_tool_task
    \/ researcher_tools_gather
    \/ compress_research
    \/ compress_research_llm

SpecRounds == InitRounds /\ [][NextRounds]_vars

DispatchRoundOrdered ==
    hist.round.done /\ ~hist.round.failed /\ hist.round.K > 0 =>
        LET r == hist.round
            cr == MessagesNamed(r.appended, "ConductResearch")
        IN \A i \in 1..Min(r.K, r.C) :
              /\ cr[i].tool_call_id = r.requests[i]
              /\ cr[i].name = "ConductResearch"
              /\ cr[i].content = r.outcomes[i].compressed_research

ToolRoundOrdered ==
    whist.round.done /\ whist.raised_in # "researcher_tools" =>
        LET r == whist.round
        IN /\ Len(r.appended) = Len(r.calls)
           /\ \A i \in 1..Len(r.calls) :
                 /\ r.appended[i].tool_call_id = r.calls[i].id
                 /\ r.appended[i].name = r.calls[i].name
                 /\ r.appended[i].content = execute_tool_safely(r.outcomes[i]).text

\* C11: whatever the order in which the workers of a dispatch round, or the tool calls
\* of a tool round, complete, the tool message built for the i-th admitted request has
\* the tool_call_id and name of the i-th request and the content of the i-th invocation.
C11_ResultsByPosition ==
    /\ node # "idle" => DispatchRoundOrdered
    /\ wnode # "idle" => ToolRoundOrdered

\* two workers of one round, the second finished first, with different results
C11_Witness ==
    /\ node = "supervisor"
    /\ hist.round.done /\ ~hist.round.failed
    /\ hist.round.reordered
    /\ Len(hist.started) = 2
    /\ hist.round.outcomes[1] # hist.round.outcomes[2]
    /\ DispatchRoundOrdered

\* two tool calls of one round, the second finished first, with different results
C11_ToolWitness ==
    /\ wnode = "researcher"
    /\ whist.round.done
    /\ whist.round.reordered
    /\ Len(whist.round.calls) = 2
    /\ whist.round.outcomes[1] # whist.round.outcomes[2]
    /\ ToolRoundOrdered

\* ------------------------------------------------------------------ claims on a dispatch round
WorkerFinished(r, i) == r.outcomes[i] # NoObservation
AllFinished(r) == \A i \in 1..Len(r.outcomes) : WorkerFinished(r, i)
AnyRaised(r) == \E i \in 1..Len(r.outcomes) : r.outcomes[i].raised

\* C12: the supervisor's thread gets no tool message of a dispatch round, and the next
\* planning step does not start, before every admitted worker of the round has finished;
\* the thread holds all of a round's messages or none, and none when a worker raised.
C12_RoundAtomicity ==
    hist.round.K > 0 =>
        LET r == hist.round
            n == Len(supervisor_messages) - r.before
        IN IF hist.planning = r.plan
           THEN /\ n = 0 \/ (r.done /\ ~r.failed /\ n = Len(r.appended))
                /\ n > 0 =>
                      /\ AllFinished(r) /\ ~AnyRaised(r)
                      /\ Len(MessagesNamed(r.appended, "ConductResearch")) = r.K
                      /\ SubSeq(supervisor_messages, r.before + 1, Len(supervisor_messages))
                             = r.appended
                /\ AnyRaised(r) => n = 0 /\ r.appended = <<>> /\ node # "supervisor"
                /\ node = "supervisor" => r.done /\ AllFinished(r) /\ n > 0
                /\ ~AllFinished(r) => n = 0
           ELSE /\ hist.planning = r.plan + 1
                /\ r.done /\ ~r.failed
                /\ AllFinished(r) /\ ~AnyRaised(r)

\* the next planning step has run after a round of two workers and three rejections
\* whose workers finished out of order
C12_Witness ==
    /\ hist.round.K = 5
    /\ hist.round.C = 2
    /\ hist.planning = hist.round.plan + 1
    /\ hist.round.reordered
    /\ Len(hist.round.appended) = 5
    /\ AllFinished(hist.round)

\* a sibling is still running when the failure of a worker has ended the round
C12_FailedWitness ==
    /\ hist.round.K > 0
    /\ hist.round.failed
    /\ ~AllFinished(hist.round)
    /\ Len(supervisor_messages) = hist.round.before

\* ------------------------------------------------------------------ the supervisor subgraph alone
\* max_researcher_iterations ranges over 0..LoopM when the subgraph runs alone
LoopM == 2

\* the state write_research_brief hands to the supervisor subgraph
InitSupervisor ==
    /\ allow_clarification = FALSE
    /\ max_researcher_iterations \in 0..LoopM
    /\ max_concurrent_research_units \in 1..MaxC
    /\ node = "supervisor"
    /\ messages = <<HumanMessage(<<"research request">>)>>
    /\ research_brief = <<"brief">>
    /\ supervisor_messages = <<SystemMessage(<<"lead_researcher_prompt">>),
                               HumanMessage(<<"brief">>)>>
    /\ research_iterations = 0
    /\ notes = <<>>
    /\ raw_notes = <<>>
    /\ final_report = NoReport
    /\ telemetry = [compressed_research_length |-> 0, raw_notes_length |-> 0]
    /\ round_calls = <<>>
    /\ round_overflow = <<>>
    /\ round_thinks = <<>>
    /\ tasks = <<>>
    /\ tool_results = <<>>
    /\ findings = <<>>
    /\ current_retry = 0
    /\ findings_token_limit = NoLimit
    /\ hist = [Hist0(messages) EXCEPT !.executed = {"clarify_with_user", "write_research_brief"},
                                      !.llm["brief"] = 1]
    /\ WorkerIdle
    /\ HealIdle
    /\ finished = <<>>
    /\ SideIdle

NextSupervisor ==
    \/ supervisor
    \/ supervisor_tools
    \/ researcher_subgraph_ainvoke
    \/ supervisor_tools_gather

SpecSupervisor == InitSupervisor /\ [][NextSupervisor]_vars

\* ------------------------------------------------------------------ claims on the supervisor subgraph
Ids(calls) == {calls[i].id : i \in 1..Len(calls)}

\* the ConductResearch requests of the latest planning response
LatestRequests == Ids(CallsNamed(LastPlan.tool_calls, "ConductResearch"))

\* C13: a delegation rejected for exceeding the cap is executed neither in its round nor
\* in a later one; no rejected request is kept in the loop state between rounds, and
\* every worker that runs was requested by the latest planning response.
C13_RejectedNeverRun ==
    /\ hist.rejected \cap hist.all_started = {}
    /\ node # "gather" =>
          round_calls = <<>> /\ round_overflow = <<>> /\ tasks = <<>> /\ tool_results = <<>>
    /\ node = "gather" =>
          /\ Ids(round_calls) \cup Ids(round_overflow) = LatestRequests
          /\ Ids(round_calls) \cap hist.rejected = {}
          /\ Len(tasks) = Len(round_calls)
          /\ \A i \in 1..Len(round_calls) : round_calls[i].id = hist.started[i]

\* a second round has started workers after a first round that rejected requests
C13_Witness ==
    /\ node = "gather"
    /\ hist.rounds = 2
    /\ \E id \in hist.rejected : id[1] = 0
    /\ \E id \in Ids(round_calls) : id[1] = 1
    /\ \E i \in 1..Len(tasks) : tasks[i] = "done"

\* C14: when a worker raises while supervisor_tools dispatches delegations, the loop
\* takes the terminal exit at once: no retry of the round, no further planning call, the
\* outgoing notes are the notes of the thread as it was before the failed round, and the
\* raw notes of the earlier rounds are still in the outgoing state.
C14_DispatchFailureExit ==
    /\ node = "gather" /\ gather_raised => ENABLED supervisor_tools_gather
    /\ hist.round.failed =>
          LET r == hist.round
          IN /\ node = "final_report_generation"
             /\ hist.planning = r.plan
             /\ hist.llm["supervisor"] = r.plan
             /\ tasks = <<>>
             /\ Len(supervisor_messages) = r.before
             /\ LastPlan.type = "ai"
             /\ notes = get_notes_from_tool_calls(SubSeq(supervisor_messages, 1, r.before))
             /\ raw_notes = r.raw_before

\* the second round fails after a first round that left a note and raw notes
C14_Witness ==
    /\ hist.round.failed
    /\ hist.rounds = 2
    /\ notes # <<>>
    /\ raw_notes # <<>>
    /\ \E i \in 1..Len(notes) : notes[i] = <<"findings on ", "topic 0.1">>

\* ------------------------------------------------------------------ the boundary of the worker
\* the run of the worker ended in an exception that left the researcher subgraph
WorkerRaised == wnode = "raised"

\* the exception came from the lookup of a tool name that the toolset does not have
UnknownToolRaised ==
    /\ WorkerRaised
    /\ whist.raised_in = "researcher_tools"
    /\ \E i \in 1..Len(researcher_messages[Len(researcher_messages)].tool_calls) :
           researcher_messages[Len(researcher_messages)].tool_calls[i].name \notin tools

\* C16: given a non-empty toolset, a run of the worker (researcher, researcher_tools,
\* compress_research) never raises past its own boundary: a failure of the LLM call of the
\* acting step, a failing tool, or a requested tool name that is not in the toolset ends in
\* a text returned to the dispatcher.
C16_WorkerNeverRaises == tools # {} => ~WorkerRaised

\* ------------------------------------------------------------------ failures of the Scope Resolver
ScopeFailed == hist.raised_in \in {"clarify_with_user", "write_research_brief"}

\* C24: if the LLM call of the clarification decision or of brief production fails after
\* the retries of the adapter, the pipeline terminates with that error: no research_brief
\* is written (no default brief) and the Supervisor Loop is never entered.
C24_ScopeFailureFatal ==
    ScopeFailed =>
        /\ node = "raised"
        /\ research_brief = NoBrief
        /\ supervisor_messages = <<>>
        /\ hist.executed \subseteq {"clarify_with_user", "write_research_brief"}
        /\ hist.raised_in \in hist.executed
        /\ hist.planning = 0 /\ hist.rounds = 0 /\ hist.reports = 0
        /\ hist.llm["supervisor"] = 0 /\ hist.llm["report"] = 0
        /\ hist.raised_in = "clarify_with_user" => hist.llm["brief"] = 0
        /\ final_report = NoReport
        /\ notes = <<>>

\* the brief call fails after a clarification that let the run proceed
C24_Witness ==
    /\ hist.raised_in = "write_research_brief"
    /\ hist.decision = "proceed"
    /\ hist.llm["clarify"] = 1
    /\ hist.llm["brief"] = 1
    /\ node = "raised"

\* the clarification call itself fails
C24_ClarifyWitness ==
    /\ hist.raised_in = "clarify_with_user"
    /\ hist.llm["clarify"] = 1
    /\ node = "raised"
    /\ messages = hist.thread0

\* ------------------------------------------------------------------ the exits of supervisor_tools
\* the three conditions of the claim, on the state supervisor_tools is entered with
TerminalCondition ==
    \/ research_iterations > max_researcher_iterations
    \/ LastPlan.tool_calls = <<>>
    \/ \E i \in 1..Len(LastPlan.tool_calls) : LastPlan.tool_calls[i].name = "ResearchComplete"

\* supervisor_tools leaves the loop and carries out none of the requested calls
ExitTaken ==
    /\ node' = "final_report_generation"
    /\ supervisor_messages' = supervisor_messages
    /\ tasks' = <<>>
    /\ hist'.rounds = hist.rounds
    /\ hist'.all_started = hist.all_started
    /\ hist'.exit \in {"completion", "cap"}

\* supervisor_tools takes up the requested calls: reflections alone are answered at once,
\* delegations start a dispatch round
CallsTakenUp ==
    LET thinks == CallsNamed(LastPlan.tool_calls, "think_tool")
        delegations == CallsNamed(LastPlan.tool_calls, "ConductResearch")
    IN /\ hist'.rounds = hist.rounds + 1
       /\ hist'.exit = "none"
       /\ IF delegations = <<>>
          THEN /\ node' = "supervisor"
               /\ Len(supervisor_messages') = Len(supervisor_messages) + Len(thinks)
          ELSE /\ node' = "gather"
               /\ Len(round_thinks') = Len(thinks)
               /\ Len(tasks') = Min(Len(delegations), max_concurrent_research_units)
               /\ supervisor_messages' = supervisor_messages

\* the dispatch round is over and its results go back to the planning step
RoundReturnsToPlanning ==
    /\ node' = "supervisor"
    /\ Len(supervisor_messages') =
          Len(supervisor_messages) + Len(round_thinks) + hist.round.K
    /\ hist'.exit = "none"

\* the dispatch round failed and the loop is left
RoundLeavesLoop ==
    /\ node' = "final_report_generation"
    /\ supervisor_messages' = supervisor_messages
    /\ hist'.exit = "failure"

\* C27 as stated: at each entry of supervisor_tools the terminal exit is taken exactly when
\* research_iterations > max_researcher_iterations, or the most recent planning response
\* has no tool calls, or it holds a ResearchComplete call (even together with
\* ConductResearch or think_tool calls, which are then not carried out); in every other
\* case the reflections and delegations are processed and control returns to planning.
C27_Original ==
    [][ /\ node = "supervisor_tools" => IF TerminalCondition THEN ExitTaken ELSE CallsTakenUp
        /\ node = "gather" /\ node' # "gather" => RoundReturnsToPlanning ]_vars

\* C27 amended: ... in every other case the reflections and delegations are processed and
\* control returns to planning, unless an admitted worker raises: then the round adds
\* nothing to the thread and the loop is left by the dispatch-failure exit.
C27_TerminalExit ==
    [][ /\ node = "supervisor_tools" => IF TerminalCondition THEN ExitTaken ELSE CallsTakenUp
        /\ node = "gather" /\ node' # "gather" =>
              IF \E i \in 1..Len(tasks) : tasks[i] = "raised"
              THEN RoundLeavesLoop ELSE RoundReturnsToPlanning ]_vars

\* under the cap, a response with ResearchComplete beside a reflection and delegations has
\* ended the loop and none of them was carried out
C27_Witness ==
    /\ node = "final_report_generation"
    /\ hist.exit = "completion"
    /\ research_iterations <= max_researcher_iterations
    /\ Len(CallsNamed(LastPlan.tool_calls, "ConductResearch")) = 2
    /\ Len(CallsNamed(LastPlan.tool_calls, "think_tool")) = 1
    /\ Len(CallsNamed(LastPlan.tool_calls, "ResearchComplete")) = 1
    /\ supervisor_messages[Len(supervisor_messages)] = LastPlan
    /\ hist.rounds = 0
    /\ hist.all_started = {}

\* ------------------------------------------------------------------ the reflections of a planning response
\* the planning response the latest pass of supervisor_tools took up
RoundPlan == supervisor_messages[hist.round.before]

\* the messages the thread has got since that response
SincePlan == SubSeq(supervisor_messages, hist.round.before + 1, Len(supervisor_messages))

\* the tool results in msgs that answer the call
Answers(msgs, call) ==
    { j \in 1..Len(msgs) : msgs[j].type = "tool" /\ msgs[j].tool_call_id = call.id }

\* every think_tool call of the response has exactly one result, the acknowledgement
ReflectionsRecorded ==
    LET thinks == CallsNamed(RoundPlan.tool_calls, "think_tool")
    IN \A i \in 1..Len(thinks) :
          /\ Cardinality(Answers(SincePlan, thinks[i])) = 1
          /\ \A j \in Answers(SincePlan, thinks[i]) :
                SincePlan[j] = ToolMessage(<<"Reflection recorded: ">> \o thinks[i].args,
                                           "think_tool", thinks[i].id)

\* no think_tool call of the response has a result
ReflectionsDropped ==
    LET thinks == CallsNamed(RoundPlan.tool_calls, "think_tool")
    IN \A i \in 1..Len(thinks) : Answers(supervisor_messages, thinks[i]) = {}

\* the latest pass of supervisor_tools took up the calls of a response and is through
PassOver == hist.round.before > 0 /\ hist.round.done

\* a pass over reflections alone appends them and touches nothing else; beside
\* delegations the reflections start no worker of their own
ReflectionsFrame ==
    node = "supervisor_tools" /\ ~TerminalCondition =>
        LET thinks == CallsNamed(LastPlan.tool_calls, "think_tool")
            delegations == CallsNamed(LastPlan.tool_calls, "ConductResearch")
        IN /\ Len(tasks') = Min(Len(delegations), max_concurrent_research_units)
           /\ hist'.all_started \ hist.all_started \subseteq Ids(delegations)
           /\ delegations = <<>> =>
                 /\ node' = "supervisor"
                 /\ Len(supervisor_messages') = Len(supervisor_messages) + Len(thinks)
                 /\ SubSeq(supervisor_messages', 1, Len(supervisor_messages)) = supervisor_messages
                 /\ UNCHANGED <<allow_clarification, max_researcher_iterations,
                                max_concurrent_research_units, messages, research_brief,
                                research_iterations, notes, raw_notes, final_report, telemetry,
                                roundVars, reportVars>>

\* C32 as stated: each think_tool call of a non-terminal planning response yields exactly
\* one tool-result message "Reflection recorded: <reflection text>" carrying that call's
\* id; processing reflections starts no worker and changes no state other than the
\* supervisor thread.
C32_Original ==
    /\ [](PassOver => ReflectionsRecorded)
    /\ [][ReflectionsFrame]_vars

\* C32 amended: the same, unless a worker dispatched by the same response raises: then
\* the reflections of that response get no tool-result message.
C32_ReflectionsRecorded ==
    /\ [](PassOver => IF hist.round.failed THEN ReflectionsDropped ELSE ReflectionsRecorded)
    /\ [][ReflectionsFrame]_vars

\* a response of one reflection and nothing else has been answered
C32_Witness ==
    /\ PassOver
    /\ hist.round.K = 0
    /\ Len(CallsNamed(RoundPlan.tool_calls, "think_tool")) = 1
    /\ Len(SincePlan) = 1
    /\ SincePlan[1].content[1] = "Reflection recorded: "

\* a reflection beside delegations has been answered once the workers returned
C32_RoundWitness ==
    /\ PassOver
    /\ hist.round.K = 2
    /\ ~hist.round.failed
    /\ Len(CallsNamed(RoundPlan.tool_calls, "think_tool")) = 1
    /\ Len(SincePlan) = 3

\* ------------------------------------------------------------------ the bound of the worker
WorkerOver == wnode \in {"END", "raised"}

\* at most max_react_tool_calls acting steps and tool rounds, at most one compression
WorkerStepsBounded ==
    /\ whist.llm <= max_react_tool_calls
    /\ whist.rounds <= max_react_tool_calls
    /\ whist.rounds <= whist.llm
    /\ tool_call_iterations <= max_react_tool_calls
    /\ whist.compress_entries <= 1

\* C28: for every max_react_tool_calls M >= 1 and every LLM behaviour, one Worker Agent
\* run performs at most M acting steps (LLM calls) and at most M tool-execution rounds,
\* and then passes control to compress_research exactly once (the toolset being non-empty,
\* as the acting step requires).
C28_WorkerBounded ==
    /\ WorkerStepsBounded
    /\ WorkerOver /\ tools # {} => whist.compress_entries = 1

\* C29: if the configured toolset is empty, the acting step of the worker raises a
\* configuration error before any LLM call is made; the worker never returns an empty
\* successful result in that case.
C29_NoToolsIsFatal ==
    tools = {} =>
        /\ wnode \in {"researcher", "raised"}
        /\ whist.llm = 0 /\ whist.invoked = 0 /\ whist.compress_llm = 0
        /\ whist.compress_entries = 0
        /\ wnode = "raised" => whist.raised_in = "researcher" /\ whist.exception = "ValueError"
        /\ compressed_research = <<>> /\ worker_raw_notes = <<>>
        /\ Len(researcher_messages) = 1

\* the run with the empty toolset has ended in the ValueError
C29_Witness ==
    /\ tools = {}
    /\ wnode = "raised"
    /\ whist.exception = "ValueError"
    /\ whist.llm = 0

\* ------------------------------------------------------------------ the thread of compress_research
\* the threads of the attempts made so far, and the one the next attempt will use
AttemptThreads ==
    IF wnode = "compress_llm" THEN Append(whist.attempt_threads, compress_messages)
    ELSE whist.attempt_threads

\* b is a with its last assistant message and every message after it removed
CutAtLastAi(a, b) ==
    \E k \in 1..Len(a) :
        /\ a[k].type = "ai"
        /\ \A j \in (k + 1)..Len(a) : a[j].type # "ai"
        /\ b = SubSeq(a, 1, k - 1)

HoldsAi(a) == \E k \in 1..Len(a) : a[k].type = "ai"

\* C30: between compression attempts the thread is changed only after a failure
\* classified as a length-limit error, where the most recent assistant message and
\* every message after it are removed (the remaining thread is a prefix of the previous
\* one, in unchanged order); after any other failure the next attempt uses exactly the
\* same thread.
C30_ThreadBetweenAttempts ==
    /\ Len(whist.attempt_outcomes) = Len(whist.attempt_threads)
    /\ \A i \in 1..(Len(AttemptThreads) - 1) :
          LET a == AttemptThreads[i]
              b == AttemptThreads[i + 1]
              failure == whist.attempt_outcomes[i]
          IN /\ failure \in {"token_limit", "other"}
             /\ failure = "other" => b = a
             /\ b # a => failure = "token_limit" /\ CutAtLastAi(a, b)
             /\ failure = "token_limit" /\ HoldsAi(a) => CutAtLastAi(a, b) /\ Len(b) < Len(a)

\* a length-limit failure that cut the thread, then another failure that kept it
C30_Witness ==
    /\ Len(whist.attempt_threads) = 3
    /\ whist.attempt_outcomes[1] = "token_limit"
    /\ whist.attempt_outcomes[2] = "other"
    /\ Len(whist.attempt_threads[2]) < Len(whist.attempt_threads[1])
    /\ whist.attempt_threads[3] = whist.attempt_threads[2]

\* the thread ends with the compression-mode instruction
EndsWithInstruction(thread) ==
    /\ thread # <<>>
    /\ thread[Len(thread)] = compress_research_simple_human_message

\* C31: on every compression attempt (the first attempt and each retry, also after a
\* length-limit truncation) the thread passed to the LLM ends with the compression-mode
\* instruction message.
C31_InstructionOnEveryAttempt ==
    \A i \in 1..Len(AttemptThreads) : EndsWithInstruction(AttemptThreads[i])

\* the first attempt of every run does end with it
FirstAttemptInstructed ==
    AttemptThreads # <<>> => EndsWithInstruction(AttemptThreads[1])

\* ------------------------------------------------------------------ claims on the whole run
\* a bound on the steps the run can still take: it is never negative and every step of
\* the graph lowers it, so every run ends
RoundSteps == max_concurrent_research_units + 3
LoopSteps == RoundSteps * (max_researcher_iterations + 2 - research_iterations)
StepsLeft ==
    CASE node \in {"END", "raised"} -> 0
      [] node = "final_report_llm" -> 1 + (max_retries + 1 - current_retry)
      [] node = "final_report_generation" -> 6
      [] node = "supervisor" -> 7 + LoopSteps
      [] node = "gather" -> 7 + LoopSteps + 1
                            + Cardinality({i \in 1..Len(tasks) : tasks[i] = "running"})
      [] node = "supervisor_tools" -> 7 + LoopSteps + RoundSteps - 1
      [] node = "write_research_brief" -> 7 + RoundSteps * (max_researcher_iterations + 3)
      [] node = "clarify_with_user" -> 8 + RoundSteps * (max_researcher_iterations + 3)

ReportOnce ==
    /\ hist.reports <= 1
    /\ hist.reports = 1 =>
          /\ hist.exit \in {"completion", "cap", "failure"}
          /\ node \in {"final_report_llm", "END"}
          /\ tasks = <<>>
    /\ hist.exit # "none" => node \in {"final_report_generation", "final_report_llm", "END"}
    /\ node = "END" =>
          IF hist.decision = "need"
          THEN hist.reports = 0 /\ hist.exit = "none"
          ELSE hist.reports = 1 /\ final_report # NoReport
    /\ StepsLeft >= 0

\* C15: a run that is not halted for clarification and in which no stage raises executes
\* final_report_generation exactly once, after the Supervisor Loop has taken its terminal
\* exit (completion, iteration cap or dispatch failure), and ends after it.
C15_ReportAfterLoop ==
    /\ []ReportOnce
    /\ [](~RunOver => ENABLED Next)
    /\ [][StepsLeft' < StepsLeft]_vars

\* the run has ended with the report after a dispatch failure
C15_Witness ==
    /\ node = "END"
    /\ hist.exit = "failure"
    /\ hist.reports = 1
    /\ hist.raised_in = ""

\* ------------------------------------------------------------------ failures of the report call
ReportOver == node = "END"

AllLengthLimit ==
    /\ hist.report_calls # <<>>
    /\ \A i \in 1..Len(hist.report_calls) : hist.report_calls[i] = "token_limit"

\* C19: in final_report_generation a failure of the LLM call that is not a length-limit
\* error, at any attempt, ends the stage immediately with final_report = "Error generating
\* final report: <error>" and no further LLM invocation.
C19_NonLengthFailureEnds ==
    /\ hist.llm["report"] = Len(hist.report_calls)
    /\ \A i \in 1..Len(hist.report_calls) :
          hist.report_calls[i] = "other" =>
              /\ i = Len(hist.report_calls)
              /\ ReportOver
              /\ final_report = <<"Error generating final report: ">> \o OtherError
              /\ current_retry = i - 1

\* the third call, after two length-limit failures, fails for another reason
C19_Witness ==
    /\ ReportOver
    /\ hist.report_calls = <<"token_limit", "token_limit", "other">>
    /\ hist.llm["report"] = 3
    /\ final_report = <<"Error generating final report: ", "other error">>

\* C20: if every LLM call of final_report_generation fails with a length-limit error and
\* the token limit of the model is known, the stage makes exactly 4 LLM invocations (the
\* first attempt and 3 retries) and then returns final_report = "Error generating final
\* report: Maximum retries exceeded".
C20_RetriesExhausted ==
    AllLengthLimit /\ hist.L # NoLimit =>
        /\ hist.llm["report"] = Len(hist.report_calls)
        /\ hist.llm["report"] <= 4
        /\ ReportOver <=> hist.llm["report"] = 4
        /\ ReportOver => final_report = retries_exceeded_report
        /\ ~ReportOver => final_report = NoReport

\* four length-limit failures with a known limit
C20_Witness ==
    /\ ReportOver
    /\ AllLengthLimit
    /\ hist.L # NoLimit
    /\ hist.llm["report"] = 4
    /\ Len(hist.budgets) = 4
    /\ final_report = <<"Error generating final report: Maximum retries exceeded">>

\* ------------------------------------------------------------------ the state the report stage leaves
\* the return path the stage took
ReportPath ==
    LET last == hist.report_calls[Len(hist.report_calls)]
    IN CASE last = "ok" -> "success"
         [] last = "other" -> "failure"
         [] Len(hist.report_calls) = 1 /\ hist.L = NoLimit -> "unknown_limit"
         [] OTHER -> "exhausted"

\* C21: on every return path of final_report_generation (success, non-length failure,
\* unknown model limit, retries exhausted) the outgoing state has the empty list in place
\* of the accumulated notes, and compressed_research_length and raw_notes_length are the
\* lengths measured before any truncation.
C21_NotesClearedLengthsKept ==
    /\ node = "final_report_llm" => notes = hist.report_notes
    /\ ReportOver /\ hist.reports = 1 =>
          /\ ReportPath \in {"success", "failure", "unknown_limit", "exhausted"}
          /\ notes = <<>>
          /\ raw_notes = hist.report_raw_notes
          /\ telemetry.compressed_research_length = Len(JoinLines(hist.report_notes))
          /\ telemetry.raw_notes_length = Len(JoinLines(hist.report_raw_notes))

\* the retries are exhausted, the findings were cut and there were notes and raw notes
C21_Witness ==
    /\ ReportOver
    /\ ReportPath = "exhausted"
    /\ Len(hist.report_notes) = 2
    /\ Len(hist.report_raw_notes) = 2
    /\ notes = <<>>
    /\ Len(findings) < telemetry.compressed_research_length
    /\ telemetry.raw_notes_length = 7

\* ------------------------------------------------------------------ Self-Healing Loop
\* SelfHealingAgent.MAX_RETRIES
MAX_RETRIES == 3

\* None where a text is expected, and where an ErrorType is expected
None == <<"<None>">>
NoErrorType == "<None>"

\* the names the imports of self_healing_agent.py bind in the module's namespace
ModuleNames ==
    {"asyncio", "re", "subprocess", "dataclass", "Enum", "Path", "Any", "Callable",
     "FileSystemBackend", "HumanMessage", "create_openrouter_llm"}

\* str.lower, chunk by chunk
lower(text) ==
    [i \in 1..Len(text) |->
        CASE text[i] = "SyntaxError" -> "syntaxerror"
          [] text[i] = "ImportError" -> "importerror"
          [] text[i] = "ModuleNotFoundError" -> "modulenotfounderror"
          [] text[i] = "No module named" -> "no module named"
          [] text[i] = "TypeError" -> "typeerror"
          [] text[i] = "NameError" -> "nameerror"
          [] text[i] = "AttributeError" -> "attributeerror"
          [] text[i] = "FAILED" -> "failed"
          [] text[i] = "Assertion" -> "assertion"
          [] text[i] = "Error" -> "error"
          [] text[i] = "Killed" -> "killed"
          [] OTHER -> text[i]]

\* a pattern is a sequence of chunks, ".*" standing for any run of chunks of one line
RECURSIVE MatchFrom(_, _, _)
MatchFrom(pattern, text, i) ==
    IF pattern = <<>> THEN TRUE
    ELSE IF Head(pattern) = ".*"
         THEN \E j \in i..(Len(text) + 1) :
                 /\ \A k \in i..(j - 1) : text[k] # "\n"
                 /\ MatchFrom(Tail(pattern), text, j)
         ELSE /\ i <= Len(text)
              /\ text[i] = Head(pattern)
              /\ MatchFrom(Tail(pattern), text, i + 1)

re_search(pattern, text) == \E i \in 1..(Len(text) + 1) : MatchFrom(pattern, text, i)

\* the patterns dict of _classify_error, in its insertion order
ErrorPatterns ==
    << [error_type |-> "syntax_error", patterns |-> {<<"syntaxerror">>, <<"invalid syntax">>}],
       [error_type |-> "import_error",
        patterns |-> {<<"importerror">>, <<"modulenotfounderror">>, <<"no module named">>}],
       [error_type |-> "type_error", patterns |-> {<<"typeerror">>}],
       [error_type |-> "name_error",
        patterns |-> {<<"nameerror">>, <<"name", " ", ".*", " ", "is not defined">>}],
       [error_type |-> "attribute_error", patterns |-> {<<"attributeerror">>}],
       [error_type |-> "test_failure",
        patterns |-> {<<"failed">>, <<"assertion">>, <<"assertion", "error">>}] >>

\* mutant: the last matching category wins
classify_error_last(msg) ==
    LET error_lower == lower(msg)
        hits == { k \in 1..Len(ErrorPatterns) :
                    \E pattern \in ErrorPatterns[k].patterns : re_search(pattern, error_lower) }
    IN IF msg = <<>> THEN "unknown"
       ELSE IF hits = {} THEN "unknown"
       ELSE ErrorPatterns[CHOOSE k \in hits : \A j \in hits : k >= j].error_type

classify_error(msg) ==
    LET error_lower == lower(msg)
        hits == { k \in 1..Len(ErrorPatterns) :
                    \E pattern \in ErrorPatterns[k].patterns : re_search(pattern, error_lower) }
    IN IF msg = <<>> THEN "unknown"
       ELSE IF hits = {} THEN "unknown"
       ELSE ErrorPatterns[CHOOSE k \in hits : \A j \in hits : k <= j].error_type

ExecutionResult(success, output, error, error_type, exit_code) ==
    [success |-> success, output |-> output, error |-> error, error_type |-> error_type,
     exit_code |-> exit_code]

HealingAttempt(attempt_number, error_context, patch_generated, res) ==
    [attempt_number |-> attempt_number, error_context |-> error_context,
     patch_generated |-> patch_generated, result |-> res]

\* the stderr texts of a failed command
ErrorTexts ==
    { <<"SyntaxError", ": ", "invalid syntax">>,
      <<"ModuleNotFoundError", ": ", "No module named", " ", "'foo'">>,
      <<"NameError", ": ", "name", " ", "'x'", " ", "is not defined">>,
      <<"Killed">> }

\* what subprocess.run does with the command: it completes, times out or raises
ExecOutcomes ==
    { [kind |-> "completed", returncode |-> 0, stdout |-> <<>>, stderr |-> <<>>],
      [kind |-> "completed", returncode |-> 0, stdout |-> <<>>,
       stderr |-> <<"DeprecationWarning">>],
      [kind |-> "completed", returncode |-> 1, stdout |-> <<"1 ", "failed">>, stderr |-> <<>>],
      [kind |-> "timeout", returncode |-> 0, stdout |-> <<>>, stderr |-> <<>>],
      [kind |-> "raised", returncode |-> 0, stdout |-> <<>>,
       stderr |-> <<"[Errno 2] No such file or directory">>] }
    \cup { [kind |-> "completed", returncode |-> 1, stdout |-> <<>>, stderr |-> e] :
             e \in ErrorTexts }

\* self_heal's argument file_path
file_path == <<"code.py">>

\* the command execute_code runs
command(path, test) == IF test # None /\ test # <<>> THEN test
                       ELSE <<"python -m py_compile ">> \o path

\* the ExecutionResult execute_code returns for an outcome of subprocess.run
execute_code(outcome) ==
    CASE outcome.kind = "timeout" ->
            ExecutionResult(FALSE, <<>>, <<"Execution timeout (30s)">>, "runtime_error", -1)
      [] outcome.kind = "raised" ->
            ExecutionResult(FALSE, <<>>, outcome.stderr, "unknown", -1)
      [] OTHER ->
            LET success == outcome.returncode = 0
                error == IF ~success THEN outcome.stderr ELSE None
                error_type == IF error # None /\ error # <<>>
                              THEN classify_error(outcome.stderr) ELSE NoErrorType
            IN ExecutionResult(success, outcome.stdout, error, error_type, outcome.returncode)

\* x or default, for an optional text
or_text(x, default) == IF x = None \/ x = <<>> THEN default ELSE x

\* str.strip, on whitespace chunks
IsSpace(chunk) == chunk \in {" ", "\n"}
RECURSIVE lstrip(_)
lstrip(text) == IF text # <<>> /\ IsSpace(Head(text)) THEN lstrip(Tail(text)) ELSE text
RECURSIVE rstrip(_)
rstrip(text) ==
    IF text # <<>> /\ IsSpace(text[Len(text)])
    THEN rstrip(SubSeq(text, 1, Len(text) - 1)) ELSE text
strip(text) == rstrip(lstrip(text))

\* the markdown fence removal of generate_patch (<fence> stands for three backquotes)
remove_fences(patched_code) ==
    LET opened == patched_code # <<>> /\ Head(patched_code) \in {"<fence>python\n", "<fence>\n"}
        body == IF opened THEN Tail(patched_code) ELSE patched_code
    IN IF opened /\ body # <<>> /\ body[Len(body)] = "\n<fence>"
       THEN SubSeq(body, 1, Len(body) - 1)
       ELSE body

\* what self.llm.invoke does for a patch request: a response or an exception
PatchResponses ==
    { [raised |-> FALSE, content |-> <<"patch">>],
      [raised |-> FALSE, content |-> <<"<fence>python\n", "patch", "\n<fence>">>],
      [raised |-> FALSE, content |-> <<" ", "patch", "\n">>],
      [raised |-> TRUE, content |-> <<"APIError">>] }

\* generate_patch: building the message list needs the names SystemMessage and
\* HumanMessage; then the LLM call, then the extraction of the code
generate_patch(llm_outcome) ==
    IF "SystemMessage" \notin ModuleNames
    THEN [raised |-> TRUE, llm |-> 0,
          text |-> <<"NameError: name 'SystemMessage' is not defined">>]
    ELSE IF llm_outcome.raised
    THEN [raised |-> TRUE, llm |-> 1, text |-> llm_outcome.content]
    ELSE [raised |-> FALSE, llm |-> 1, text |-> remove_fences(strip(llm_outcome.content))]

NoReturn == [kind |-> "none"]

HHist0 ==
    [executions |-> 0, patches |-> 0, llm |-> 0, results |-> <<>>, commands |-> <<>>,
     patched |-> <<>>]

\* mutant: the initial execution is counted as an attempt
first_attempt_return_counted(current) ==
    [kind |-> "returned", success |-> TRUE, final_code |-> current, attempts |-> 1,
     keys |-> {"success", "final_code", "attempts", "message"}]

\* the return of self_heal when the initial execution succeeds
first_attempt_return(current) ==
    [kind |-> "returned", success |-> TRUE, final_code |-> current, attempts |-> 0,
     keys |-> {"success", "final_code", "attempts", "message"}]

\* self_heal up to the loop: the reset of the history and the initial execution
self_heal ==
    /\ hnode = "self_heal"
    /\ healing_history' = <<>>
    /\ current_code' = code
    /\ file_text' = code
    /\ \E outcome \in ExecOutcomes :
          LET res == execute_code(outcome)
          IN /\ result' = res
             /\ hhist' = [hhist EXCEPT !.executions = @ + 1, !.results = Append(@, res),
                                       !.commands = Append(@, command(file_path, test_command))]
             /\ IF res.success
                THEN /\ hnode' = "returned"
                     /\ attempt' = 0
                     /\ heal_return' = first_attempt_return(code)
                ELSE /\ hnode' = "healing"
                     /\ attempt' = 1
                     /\ UNCHANGED heal_return
    /\ UNCHANGED <<code, test_command, related_docs, graphVars, workerVars, finished, sideVars>>

\* one pass of the loop of self_heal: patch, record, execute again; after the last
\* pass without success, the return of the exhausted result
healing_attempt ==
    /\ hnode = "healing"
    /\ attempt \in 1..MAX_RETRIES
    /\ \E llm_outcome \in PatchResponses, outcome \in ExecOutcomes :
          LET patch == generate_patch(llm_outcome)
              record == HealingAttempt(attempt, or_text(result.error, <<>>), patch.text, result)
              history == Append(healing_history, record)
              res == execute_code(outcome)
          IN IF patch.raised
             THEN /\ hnode' = "raised"
                  /\ heal_return' = [kind |-> "raised", exception |-> patch.text]
                  /\ hhist' = [hhist EXCEPT !.patches = @ + 1, !.llm = @ + patch.llm]
                  /\ UNCHANGED <<healing_history, current_code, result, attempt, file_text>>
             ELSE /\ healing_history' = history
                  /\ current_code' = patch.text
                  /\ file_text' = patch.text
                  /\ result' = res
                  /\ hhist' = [hhist EXCEPT !.patches = @ + 1, !.llm = @ + patch.llm,
                                            !.patched = Append(@, patch.text),
                                            !.executions = @ + 1, !.results = Append(@, res),
                                            !.commands =
                                                Append(@, command(file_path, test_command))]
                  /\ IF res.success
                     THEN /\ hnode' = "returned"
                          /\ UNCHANGED attempt
                          /\ heal_return' =
                                 [kind |-> "returned", success |-> TRUE,
                                  final_code |-> patch.text, attempts |-> attempt,
                                  history |-> history,
                                  keys |-> {"success", "final_code", "attempts", "history",
                                            "message"}]
                     ELSE IF attempt < MAX_RETRIES
                     THEN /\ hnode' = "healing"
                          /\ attempt' = attempt + 1
                          /\ UNCHANGED heal_return
                     ELSE /\ hnode' = "returned"
                          /\ UNCHANGED attempt
                          /\ heal_return' =
                                 [kind |-> "returned", success |-> FALSE,
                                  final_code |-> patch.text, attempts |-> MAX_RETRIES,
                                  history |-> history, last_error |-> res.error,
                                  keys |-> {"success", "final_code", "attempts", "history",
                                            "message", "last_error"}]
    /\ UNCHANGED <<code, test_command, related_docs, graphVars, workerVars, finished, sideVars>>

\* the arguments of self_heal
Codes == { <<"def f(:">>, <<"import foo">>, <<"print(x)">> }

InitHeal ==
    /\ GraphIdle
    /\ WorkerIdle
    /\ finished = <<>>
    /\ SideIdle
    /\ code \in Codes
    /\ test_command \in {None, <<"pytest test_file.py">>}
    /\ related_docs \in {None, <<"docs">>}
    /\ hnode = "self_heal"
    /\ healing_history = <<>>
    /\ current_code = <<>>
    /\ result = <<>>
    /\ attempt = 0
    /\ file_text = <<>>
    /\ heal_return = NoReturn
    /\ hhist = HHist0

NextHeal == self_heal \/ healing_attempt

SpecHeal == InitHeal /\ [][NextHeal]_vars

\* ------------------------------------------------------------------ claims on self_heal
HealOver == hnode \in {"returned", "raised"}

\* the invocation returned a working code
HealSucceeded == hnode = "returned" /\ heal_return.success

\* C2: whatever the executions and the patches are, one self_heal invocation makes at
\* most MAX_RETRIES (3) patch generations and at most MAX_RETRIES + 1 (4) executions
\* and then returns, with success or as exhausted.
C2_BoundedSelfHeal ==
    /\ hhist.patches <= 3
    /\ hhist.executions <= 4
    /\ hnode # "raised"
    /\ HealOver => heal_return.kind = "returned"

AllFailed == \A i \in 1..Len(hhist.results) : ~hhist.results[i].success

\* C9: when every execution of a self_heal invocation fails, the invocation returns
\* success = false, attempts = 3, a history of exactly 3 records, final_code equal to
\* the third patch, and last_error equal to the error text of the last execution.
C9_ExhaustedResult ==
    HealOver /\ AllFailed =>
        /\ heal_return.kind = "returned"
        /\ heal_return.success = FALSE
        /\ heal_return.attempts = 3
        /\ Len(heal_return.history) = 3
        /\ heal_return.final_code = heal_return.history[3].patch_generated
        /\ heal_return.last_error = hhist.results[Len(hhist.results)].error

\* a patch generation of the invocation ended in an exception
PatchRaised == hhist.patches > Len(hhist.patched)

\* C17: if patch generation (the LLM call) raises during a healing attempt, self_heal does
\* not end in an unhandled exception: it returns a result carrying the last code version
\* and the history of the attempts completed so far.
C17_PatchFailureReturns ==
    PatchRaised =>
        /\ hnode = "returned"
        /\ heal_return.kind = "returned"
        /\ heal_return.final_code = current_code
        /\ heal_return.history = healing_history

\* C18: after n healing attempts the history has exactly n records in order; record i has
\* attempt_number = i, error_context = the error text of the failed execution that
\* triggered attempt i, patch_generated = the patch of attempt i, and result = the outcome
\* of executing that patch.
C18_HistoryRecords ==
    /\ Len(healing_history) = hhist.patches
    /\ \A i \in 1..Len(healing_history) :
          /\ healing_history[i].attempt_number = i
          /\ healing_history[i].error_context = or_text(hhist.results[i].error, <<>>)
          /\ healing_history[i].patch_generated = hhist.patched[i]
          /\ i + 1 <= Len(hhist.results) => healing_history[i].result = hhist.results[i + 1]

\* the members of ErrorType
ErrorTypes ==
    {"syntax_error", "import_error", "type_error", "name_error", "attribute_error",
     "test_failure", "runtime_error", "unknown"}

\* C34: every Execution Outcome returned by execute_code with success = false carries
\* exactly one classified error category (never none), for every stderr text of the failed
\* command including the empty text; an outcome with success = true has exit code 0, no
\* error text and no category.
C34_FailureHasCategory ==
    \A i \in 1..Len(hhist.results) :
        LET outcome == hhist.results[i]
        IN IF outcome.success
           THEN /\ outcome.exit_code = 0
                /\ outcome.error = None
                /\ outcome.error_type = NoErrorType
           ELSE outcome.error_type \in ErrorTypes

\* what does hold: a failed outcome lacks a category only when its error text is empty
CategoryUnlessEmpty ==
    \A i \in 1..Len(hhist.results) :
        LET outcome == hhist.results[i]
        IN /\ outcome.success =>
                outcome.exit_code = 0 /\ outcome.error = None /\ outcome.error_type = NoErrorType
           /\ ~outcome.success =>
                \/ outcome.error_type \in ErrorTypes
                \/ outcome.error = <<>> /\ outcome.error_type = NoErrorType

\* ------------------------------------------------------------------ refactor_with_tests
\* what self.llm.invoke does for a test request: a response or an exception
TestResponses ==
    { [raised |-> FALSE, content |-> <<"def test_f(): ...">>],
      [raised |-> FALSE, content |-> <<"<fence>python\n", "def test_f(): ...", "\n<fence>">>],
      [raised |-> TRUE, content |-> <<"APIError">>] }

\* generate_unit_tests: building the message list needs the names SystemMessage and
\* HumanMessage; then the LLM call, then the extraction of the test code
generate_unit_tests(llm_outcome) ==
    IF "SystemMessage" \notin ModuleNames
    THEN [raised |-> TRUE, llm |-> 0,
          text |-> <<"NameError: name 'SystemMessage' is not defined">>]
    ELSE IF llm_outcome.raised
    THEN [raised |-> TRUE, llm |-> 1, text |-> llm_outcome.content]
    ELSE [raised |-> FALSE, llm |-> 1, text |-> remove_fences(strip(llm_outcome.content))]

\* Path(file_path).parent / f"test_{Path(file_path).name}"
test_file_path(path) == <<"test_">> \o path

RHist0 == [generations |-> 0, llm |-> 0, executions |-> 0, commands |-> <<>>, healed |-> NoReturn]

\* refactor_with_tests from the return of its self_heal: the early return of a failed
\* healing, or the generation of the tests, their one run and the result
refactor_with_tests ==
    /\ rnode = "self_heal"
    /\ hnode \in {"returned", "raised"}
    /\ IF hnode = "raised"
       THEN /\ rnode' = "raised"
            /\ refactor_return' = heal_return
            /\ rhist' = [rhist EXCEPT !.healed = heal_return]
       ELSE IF ~heal_return.success
       THEN /\ rnode' = "returned"
            /\ refactor_return' = heal_return
            /\ rhist' = [rhist EXCEPT !.healed = heal_return]
       ELSE \E llm_outcome \in TestResponses, outcome \in ExecOutcomes :
              LET tests == generate_unit_tests(llm_outcome)
                  test_result == execute_code(outcome)
              IN IF tests.raised
                 THEN /\ rnode' = "raised"
                      /\ refactor_return' = [kind |-> "raised", exception |-> tests.text]
                      /\ rhist' = [rhist EXCEPT !.generations = @ + 1, !.llm = @ + tests.llm,
                                                !.healed = heal_return]
                 ELSE /\ rnode' = "returned"
                      /\ refactor_return' =
                             [kind |-> "returned", success |-> heal_return.success,
                              code |-> heal_return.final_code, tests |-> tests.text,
                              test_file |-> test_file_path(file_path),
                              test_passed |-> test_result.success,
                              healing_attempts |-> heal_return.attempts,
                              keys |-> {"success", "code", "tests", "test_file", "test_passed",
                                        "healing_attempts"}]
                      /\ rhist' = [rhist EXCEPT
                                      !.generations = @ + 1, !.llm = @ + tests.llm,
                                      !.executions = @ + 1,
                                      !.commands =
                                          Append(@, command(test_file_path(file_path),
                                                            <<"pytest ">>
                                                            \o test_file_path(file_path)
                                                            \o <<" -v">>)),
                                      !.healed = heal_return]
    /\ UNCHANGED <<graphVars, workerVars, healVars, finished, classifyVars, coordVars,
                   poolVars, lateVars>>

\* refactor_with_tests(code, file_path, related_docs): self_heal is called without a
\* test command
InitRefactor ==
    /\ GraphIdle
    /\ WorkerIdle
    /\ finished = <<>>
    /\ ClassifyIdle
    /\ CoordIdle
    /\ PoolIdle
    /\ LateIdle
    /\ code \in Codes
    /\ test_command = None
    /\ related_docs \in {None, <<"docs">>}
    /\ hnode = "self_heal"
    /\ healing_history = <<>>
    /\ current_code = <<>>
    /\ result = <<>>
    /\ attempt = 0
    /\ file_text = <<>>
    /\ heal_return = NoReturn
    /\ hhist = HHist0
    /\ rnode = "self_heal"
    /\ refactor_return = NoReturn
    /\ rhist = RHist0

NextRefactor == self_heal \/ healing_attempt \/ refactor_with_tests

SpecRefactor == InitRefactor /\ [][NextRefactor]_vars

\* ------------------------------------------------------------------ claims on refactor_with_tests
RefactorOver == rnode \in {"returned", "raised"}

\* the healing loop of the call returned without success
HealExhausted == hnode = "returned" /\ ~heal_return.success

\* C33: refactor_with_tests generates and runs unit tests only when the healing loop
\* succeeded; when healing is exhausted it returns the healing result without any
\* test-generation call, and the test run is a single execution that is never patched or
\* retried and does not change the reported healing attempts or the reported success.
C33_TestsAfterSuccess ==
    /\ rhist.generations > 0 \/ rhist.executions > 0 => HealSucceeded
    /\ RefactorOver /\ HealExhausted =>
          /\ rnode = "returned"
          /\ refactor_return = heal_return
          /\ rhist.generations = 0 /\ rhist.executions = 0
    /\ RefactorOver /\ HealSucceeded =>
          /\ rnode = "returned"
          /\ rhist.generations = 1
          /\ rhist.executions = 1
          /\ refactor_return.success = heal_return.success
          /\ refactor_return.healing_attempts = heal_return.attempts
          /\ heal_return = rhist.healed

\* what does hold: no test is generated or run unless the healing loop succeeded
TestsOnlyAfterSuccess ==
    /\ rhist.generations > 0 \/ rhist.executions > 0 => HealSucceeded
    /\ rhist.generations <= 1 /\ rhist.executions <= rhist.generations

\* ------------------------------------------------------------------ _classify_error alone
\* error texts of up to MaxErrLen chunks are classified, and some longer ones
MaxErrLen == 2

\* the chunks error texts are made of
ErrorChunks ==
    {"SyntaxError", "invalid syntax", "ImportError", "ModuleNotFoundError", "No module named",
     "TypeError", "NameError", "name", " ", "is not defined", "AttributeError", "FAILED",
     "Assertion", "Error", "\n", "Killed"}

\* the error texts of up to MaxErrLen chunks, the two texts of test_error_classification,
\* and NameError reports on one line and broken over two
ErrorMessages ==
    UNION { [1..n -> ErrorChunks] : n \in 0..MaxErrLen }
    \cup ErrorTexts
    \cup { <<"ImportError", ": ", "No module named", " ", "'foo'">>,
           <<"name", " ", "'x'", " ", "is not defined">>,
           <<"name", " ", "'x'", "\n", " ", "is not defined">>,
           <<"name", " ", " ", "is not defined", " ", "FAILED">> }

InitClassify ==
    /\ GraphIdle
    /\ WorkerIdle
    /\ HealIdle
    /\ finished = <<>>
    /\ CoordIdle
    /\ RefactorIdle
    /\ PoolIdle
    /\ LateIdle
    /\ error_message \in ErrorMessages
    /\ classified = "<none>"

\* the call of _classify_error
classify ==
    /\ classified = "<none>"
    /\ classified' = classify_error(error_message)
    /\ UNCHANGED <<error_message, graphVars, workerVars, healVars, finished, coordVars,
                   refactorVars, poolVars, lateVars>>

NextClassify == classify

SpecClassify == InitClassify /\ [][NextClassify]_vars

\* the categories in the order of the claim
CategoryOrder ==
    <<"syntax_error", "import_error", "type_error", "name_error", "attribute_error",
      "test_failure">>

\* the lower-cased text holds the chunks in a row
Holds(text, chunks) ==
    \E i \in 0..Len(text) :
        /\ i + Len(chunks) <= Len(text)
        /\ \A k \in 1..Len(chunks) : lower(text)[i + k] = chunks[k]

\* the lower-cased text holds "name ", then anything on the same line, then
\* " is not defined"
HoldsNameNotDefined(text) ==
    \E i, j \in 1..Len(text) :
        /\ i + 2 <= j
        /\ j + 1 <= Len(text)
        /\ lower(text)[i] = "name" /\ lower(text)[i + 1] = " "
        /\ lower(text)[j] = " " /\ lower(text)[j + 1] = "is not defined"
        /\ \A k \in (i + 2)..(j - 1) : text[k] # "\n"

\* a pattern of the category matches the lower-cased text
CategoryMatches(category, text) ==
    CASE category = "syntax_error" ->
            Holds(text, <<"syntaxerror">>) \/ Holds(text, <<"invalid syntax">>)
      [] category = "import_error" ->
            \/ Holds(text, <<"importerror">>)
            \/ Holds(text, <<"modulenotfounderror">>)
            \/ Holds(text, <<"no module named">>)
      [] category = "type_error" -> Holds(text, <<"typeerror">>)
      [] category = "name_error" -> Holds(text, <<"nameerror">>) \/ HoldsNameNotDefined(text)
      [] category = "attribute_error" -> Holds(text, <<"attributeerror">>)
      [] category = "test_failure" -> Holds(text, <<"failed">>) \/ Holds(text, <<"assertion">>)

\* C23: _classify_error returns exactly one category for every error text: the first
\* category, in the order syntax, import, type, name, attribute, test-failure, one of whose
\* patterns matches the lower-cased text, and unknown when no pattern matches or the text
\* is empty ("SyntaxError: invalid syntax" is syntax, "ImportError: No module named 'foo'"
\* is import).
C23_FirstMatchWins ==
    classified \notin {"idle", "<none>"} =>
        LET matching == { k \in 1..Len(CategoryOrder) :
                            CategoryMatches(CategoryOrder[k], error_message) }
        IN /\ classified \in {CategoryOrder[k] : k \in 1..Len(CategoryOrder)} \cup {"unknown"}
           /\ classified = "unknown" <=> (error_message = <<>> \/ matching = {})
           /\ \A k \in matching :
                 (\A j \in matching : k <= j) => classified = CategoryOrder[k]
           /\ error_message = <<"SyntaxError", ": ", "invalid syntax">> =>
                 classified = "syntax_error"
           /\ error_message = <<"ImportError", ": ", "No module named", " ", "'foo'">> =>
                 classified = "import_error"

\* a text that matches patterns of two categories gets the earlier one
C23_Witness ==
    /\ error_message = <<"name", " ", " ", "is not defined", " ", "FAILED">>
    /\ classified = "name_error"

\* ------------------------------------------------------------------ ImpactAnalysisCoordinator
\* the file system the requests are about: a Python file, a directory and a missing path
FilePaths == {"/project/module.py", "/project", "/nonexistent/file.py"}

\* Path(file_path).exists()
exists(path) == path \in {"/project/module.py", "/project"}

\* Path(file_path).is_file()
is_file(path) == path = "/project/module.py"

AnalysisModes == {"SPEED", "PRECISION"}

AnalysisRequest(mode, path) == [mode |-> mode, file_path |-> path]

AnalysisResult(mode, success, message, fallback_suggested, metadata) ==
    [mode |-> mode, success |-> success, error_message |-> message,
     fallback_suggested |-> fallback_suggested, metadata |-> metadata]

NoResult == [mode |-> "<none>", success |-> FALSE, error_message |-> None,
             fallback_suggested |-> FALSE, metadata |-> {}]

\* what the world does during one call of analyze: the planning call of the LLM, the
\* two availability checks of pyright, the LSP analysis and the static analysis
AnalysisEnvs ==
    [plan_raises : BOOLEAN, available : BOOLEAN, analyzer_available : BOOLEAN,
     lsp : {"ok", "failed"}, static : {"ok", "failed"}]

\* SpeedAnalyzer.analyze: the result, and the work done
speed_analyzer_analyze(req, env) ==
    IF ~exists(req.file_path)
    THEN [result |-> AnalysisResult("SPEED", FALSE,
                                    <<"File ", "not found", ": ", req.file_path>>, FALSE, {}),
          events |-> <<"SpeedAnalyzer.analyze">>]
    ELSE [result |-> IF env.static = "ok"
                     THEN AnalysisResult("SPEED", TRUE, None, FALSE,
                                         {"total_nodes", "total_edges", "max_depth"})
                     ELSE AnalysisResult("SPEED", FALSE, <<"str(e)">>, FALSE, {}),
          events |-> <<"SpeedAnalyzer.analyze", "_build_dependency_graph">>]

\* PrecisionAnalyzer.analyze: the result, and the work done
precision_analyzer_analyze(req, env) ==
    IF ~env.analyzer_available
    THEN [result |-> AnalysisResult("PRECISION", FALSE,
                                    <<"Pyright LSP server is not available. ">>, TRUE, {}),
          events |-> <<"PrecisionAnalyzer.analyze">>]
    ELSE [result |-> IF is_file(req.file_path) /\ env.lsp = "ok"
                     THEN AnalysisResult("PRECISION", TRUE, None, FALSE,
                                         {"lsp_server", "reference_count"})
                     ELSE AnalysisResult("PRECISION", FALSE,
                                         <<"LSP analysis failed: ", "str(e)">>, TRUE, {}),
          events |-> <<"PrecisionAnalyzer.analyze", "_analyze_with_lsp">>]

\* ImpactAnalysisCoordinator._verify_file_access
verify_file_access(path) == exists(path) /\ is_file(path)

\* ImpactAnalysisCoordinator._execute_with_subagent
execute_with_subagent(req, env) ==
    IF req.mode = "SPEED" THEN speed_analyzer_analyze(req, env)
    ELSE IF ~env.available
         THEN [result |-> AnalysisResult("PRECISION", FALSE,
                                         <<"Precision analyzer not available">>, TRUE, {}),
               events |-> <<>>]
         ELSE precision_analyzer_analyze(req, env)

\* step 4 of analyze: result.fallback_suggested and request.mode == AnalysisMode.PRECISION
fallback_needed(res, req) == res.fallback_suggested /\ req.mode = "PRECISION"

\* mutant: the file is not verified before the analyzers run
file_refused_never(path) == FALSE

\* step 2 of analyze: if not self._verify_file_access(request.file_path)
file_refused(path) == ~verify_file_access(path)

\* ImpactAnalysisCoordinator.analyze: whether it raised, the result, and the work done
coordinator_analyze(req, env) ==
    IF env.plan_raises
    THEN [raised |-> TRUE, result |-> NoResult, events |-> <<"llm.invoke">>]
    ELSE IF file_refused(req.file_path)
    THEN [raised |-> FALSE,
          result |-> AnalysisResult(req.mode, FALSE,
                                    <<"Cannot access file: ", req.file_path>>, FALSE, {}),
          events |-> <<"llm.invoke">>]
    ELSE LET first == execute_with_subagent(req, env)
             fallback_request == AnalysisRequest("SPEED", req.file_path)
             second == execute_with_subagent(fallback_request, env)
         IN IF fallback_needed(first.result, req)
            THEN [raised |-> FALSE,
                  result |-> [second.result EXCEPT !.metadata = @ \cup {"fallback_executed"}],
                  events |-> <<"llm.invoke">> \o first.events \o second.events]
            ELSE [raised |-> FALSE, result |-> first.result,
                  events |-> <<"llm.invoke">> \o first.events]

\* the entry points: the two methods of the coordinator cli.main chooses between, and
\* SpeedAnalyzer.analyze called on its own
EntryPoints == {"analyze", "analyze_with_human_in_loop", "SpeedAnalyzer.analyze"}

\* human_input_callback: None, or a callback that answers True or False
Callbacks == {"None", "True", "False"}

InitCoordinator ==
    /\ GraphIdle
    /\ WorkerIdle
    /\ HealIdle
    /\ finished = <<>>
    /\ ClassifyIdle
    /\ RefactorIdle
    /\ PoolIdle
    /\ LateIdle
    /\ entry \in EntryPoints
    /\ request \in { AnalysisRequest(m, p) : m \in AnalysisModes, p \in FilePaths }
    /\ entry = "SpeedAnalyzer.analyze" => request.mode = "SPEED"
    /\ human_input_callback \in Callbacks
    /\ entry # "analyze_with_human_in_loop" => human_input_callback = "None"
    /\ cnode = IF entry = "SpeedAnalyzer.analyze" THEN "SpeedAnalyzer.analyze" ELSE "analyze"
    /\ analysis_result = NoResult
    /\ events = <<>>

CoordUnchanged == UNCHANGED <<entry, request, human_input_callback, graphVars, workerVars,
                              healVars, finished, classifyVars, refactorVars, poolVars,
                              lateVars>>

\* self.analyze(request), called by cli.main or first thing by analyze_with_human_in_loop
analyze ==
    /\ cnode = "analyze"
    /\ \E env \in AnalysisEnvs :
          LET r == coordinator_analyze(request, env)
          IN /\ events' = events \o r.events
             /\ IF r.raised
                THEN cnode' = "raised" /\ UNCHANGED analysis_result
                ELSE /\ analysis_result' = r.result
                     /\ cnode' = IF entry = "analyze" THEN "returned" ELSE "human_in_loop"
    /\ CoordUnchanged

\* analyze_with_human_in_loop after its first attempt
human_in_loop ==
    /\ cnode = "human_in_loop"
    /\ IF ~analysis_result.success /\ analysis_result.fallback_suggested
       THEN LET asked == human_input_callback # "None"
                should_fallback == IF asked THEN human_input_callback = "True" ELSE TRUE
                before == events \o (IF asked THEN <<"human_input_callback">> ELSE <<>>)
            IN IF should_fallback
               THEN \E env \in AnalysisEnvs :
                       LET r == coordinator_analyze(AnalysisRequest("SPEED", request.file_path),
                                                    env)
                       IN /\ events' = before \o r.events
                          /\ IF r.raised
                             THEN cnode' = "raised" /\ UNCHANGED analysis_result
                             ELSE /\ cnode' = "returned"
                                  /\ analysis_result' =
                                        [r.result EXCEPT
                                            !.metadata = @ \cup {"human_approved_fallback"}]
               ELSE /\ events' = before
                    /\ cnode' = "returned"
                    /\ UNCHANGED analysis_result
       ELSE /\ cnode' = "returned"
            /\ UNCHANGED <<analysis_result, events>>
    /\ CoordUnchanged

\* SpeedAnalyzer.analyze called on its own, as in test_speed_analyzer.py
speed_analyze ==
    /\ cnode = "SpeedAnalyzer.analyze"
    /\ \E env \in AnalysisEnvs :
          LET r == speed_analyzer_analyze(request, env)
          IN /\ events' = events \o r.events
             /\ analysis_result' = r.result
             /\ cnode' = "returned"
    /\ CoordUnchanged

NextCoordinator == analyze \/ human_in_loop \/ speed_analyze

SpecCoordinator == InitCoordinator /\ [][NextCoordinator]_vars

\* ------------------------------------------------------------------ claims on the coordinator
Happened(event) == \E i \in 1..Len(events) : events[i] = event

AnalysisOver == cnode \in {"returned", "raised"}

\* the callback is never asked, whatever the analyzers do
CallbackNeverAsked == ~Happened("human_input_callback")

NoAnalysisRan == ~Happened("_build_dependency_graph") /\ ~Happened("_analyze_with_lsp")

NoAnalyzerCalled ==
    ~Happened("SpeedAnalyzer.analyze") /\ ~Happened("PrecisionAnalyzer.analyze")

RefusedResult ==
    /\ cnode = "returned"
    /\ ~analysis_result.success
    /\ analysis_result.error_message # None
    /\ analysis_result.error_message # <<>>

MessageHolds(chunk) ==
    \E i \in 1..Len(analysis_result.error_message) : analysis_result.error_message[i] = chunk

\* C26 as stated: an analysis request whose file_path does not name an existing file
\* returns a result with success = false and an error message, and runs no analyzer on
\* it, both through ImpactAnalysisCoordinator.analyze (in any mode) and through
\* SpeedAnalyzer.analyze (whose message contains "not found").
C26_Original ==
    AnalysisOver /\ ~is_file(request.file_path) =>
        /\ RefusedResult
        /\ NoAnalysisRan
        /\ IF entry = "SpeedAnalyzer.analyze" THEN MessageHolds("not found")
           ELSE NoAnalyzerCalled

\* C26 amended: through ImpactAnalysisCoordinator.analyze, in any mode, a file_path that
\* is missing or is a directory gets success = false with "Cannot access file: <path>"
\* and no analyzer is called, unless the planning call of the LLM, which comes first,
\* raises: then analyze raises, with no result and no analyzer called. Through
\* SpeedAnalyzer.analyze a missing path gets success = false with a message containing
\* "not found" and no analysis, while a directory is analysed like a file.
C26_MissingFileRefused ==
    AnalysisOver /\ ~is_file(request.file_path) =>
        IF entry = "SpeedAnalyzer.analyze"
        THEN /\ cnode = "returned"
             /\ IF exists(request.file_path)
                THEN Happened("_build_dependency_graph")
                ELSE RefusedResult /\ MessageHolds("not found") /\ NoAnalysisRan
        ELSE /\ events = <<"llm.invoke">>
             /\ NoAnalyzerCalled /\ NoAnalysisRan
             /\ IF cnode = "raised" THEN analysis_result = NoResult
                ELSE /\ RefusedResult
                     /\ analysis_result.mode = request.mode
                     /\ analysis_result.error_message =
                            <<"Cannot access file: ", request.file_path>>

\* a PRECISION request on a missing path is refused by the coordinator
C26_Witness ==
    /\ entry = "analyze"
    /\ request = AnalysisRequest("PRECISION", "/nonexistent/file.py")
    /\ cnode = "returned"
    /\ ~analysis_result.success
    /\ analysis_result.error_message = <<"Cannot access file: ", "/nonexistent/file.py">>
    /\ events = <<"llm.invoke">>

\* the missing path given to SpeedAnalyzer.analyze itself
C26_SpeedWitness ==
    /\ entry = "SpeedAnalyzer.analyze"
    /\ request.file_path = "/nonexistent/file.py"
    /\ cnode = "returned"
    /\ MessageHolds("not found")
    /\ events = <<"SpeedAnalyzer.analyze">>

\* C25: with human-in-the-loop enabled (analyze_with_human_in_loop with a callback), a
\* fallback from PRECISION to SPEED analysis is executed only after the callback has been
\* asked and has returned true; when the callback returns false the failed PRECISION
\* result is returned and no SPEED analysis runs.
C25_FallbackAfterApproval ==
    /\ entry = "analyze_with_human_in_loop"
    /\ human_input_callback # "None"
    /\ request.mode = "PRECISION"
    =>
    /\ \A i \in 1..Len(events) :
          events[i] = "SpeedAnalyzer.analyze" =>
              /\ human_input_callback = "True"
              /\ \E j \in 1..(i - 1) : events[j] = "human_input_callback"
    /\ human_input_callback = "False" =>
          /\ ~Happened("SpeedAnalyzer.analyze")
          /\ cnode = "returned" => analysis_result.mode = "PRECISION"

\* C22: whenever self_heal returns success = true, attempts equals the number of patches
\* generated in that invocation (0 when the initial execution succeeds, and then no LLM
\* call is made), and final_code is exactly the code whose execution succeeded.
C22_SuccessResult ==
    HealSucceeded =>
        /\ heal_return.attempts = hhist.patches
        /\ heal_return.attempts = Len(hhist.patched)
        /\ heal_return.attempts = 0 => hhist.llm = 0 /\ heal_return.final_code = code
        /\ hhist.results[Len(hhist.results)].success
        /\ Len(hhist.results) = heal_return.attempts + 1
        /\ heal_return.final_code = file_text
        /\ heal_return.final_code = current_code

\* the initial execution succeeds (with a warning on stderr) under a test command
C22_Witness ==
    /\ HealSucceeded
    /\ heal_return.attempts = 0
    /\ hhist.executions = 1
    /\ hhist.commands = <<test_command>>
    /\ heal_return.final_code = <<"print(x)">>
    /\ "history" \notin heal_return.keys

\* ------------------------------------------------------------------ the workers of one dispatch round
\* what marks a text as made for or by worker i
Tag(i) == "w" \o ToString(i)

\* the allowed ConductResearch calls of a round: up to MaxC of them, each with a topic of
\* its own, or all with one topic
PoolCalls ==
    { [i \in 1..n |-> [name |-> "ConductResearch", id |-> <<0, i>>, args |-> <<"topic ", Tag(i)>>]] :
        n \in 1..MaxC }
    \cup { [i \in 1..n |-> [name |-> "ConductResearch", id |-> <<0, i>>, args |-> <<"topic">>]] :
             n \in 2..MaxC }

\* mutant: every worker is started on the thread of the first call
subgraph_input_shared(calls, i) ==
    [researcher_messages |-> <<HumanMessage(calls[1].args)>>, research_topic |-> calls[1].args]

\* {"researcher_messages": [HumanMessage(content=tool_call["args"]["research_topic"])],
\*  "research_topic": tool_call["args"]["research_topic"]}
subgraph_input(calls, i) ==
    [researcher_messages |-> <<HumanMessage(calls[i].args)>>, research_topic |-> calls[i].args]

\* the state of one run of the researcher subgraph, from its input
PoolWorker(input) ==
    [node |-> "researcher", researcher_messages |-> input.researcher_messages,
     tool_call_iterations |-> 0, compressed_research |-> <<>>, raw_notes |-> <<>>,
     input |-> input.researcher_messages]

\* research_tasks = [researcher_subgraph.ainvoke({...}, config) for tool_call in allowed...]
pool_dispatch ==
    /\ pool = <<>>
    /\ pool_calls # <<>>
    /\ pool' = [i \in 1..Len(pool_calls) |-> PoolWorker(subgraph_input(pool_calls, i))]
    /\ UNCHANGED <<pool_calls, pool_limit, pool_overlap, graphVars, workerVars, healVars,
                   finished, classifyVars, coordVars, refactorVars, lateVars>>

\* the tool calls of a response of worker i at its iteration it
PoolToolCalls(i, it) ==
    LET call(name, k) == [name |-> name, id |-> <<i, it, k>>, args |-> <<Tag(i), " query">>]
    IN { <<>>, <<call("web_search", 1)>>,
         <<call("web_search", 1), call("ResearchComplete", 2)>> }

\* another worker is in the middle of its run
OthersRunning(i) ==
    \E j \in 1..Len(pool) :
        /\ j # i
        /\ Len(pool[j].researcher_messages) > 1
        /\ pool[j].node \notin {"END", "raised"}

PoolUnchanged ==
    UNCHANGED <<pool_calls, pool_limit, graphVars, workerVars, healVars, finished,
                classifyVars, coordVars, refactorVars, lateVars>>

\* the acting step of worker i
pool_researcher ==
    /\ \E i \in 1..Len(pool) :
        /\ pool[i].node = "researcher"
        /\ pool_overlap' = (pool_overlap \/ OthersRunning(i))
        /\ \/ pool' = [pool EXCEPT ![i].node = "raised"]
           \/ \E calls \in PoolToolCalls(i, pool[i].tool_call_iterations) :
                 LET response == AIMessage(<<"thought of ", Tag(i)>>, calls)
                 IN pool' = [pool EXCEPT
                               ![i].researcher_messages = Append(@, response),
                               ![i].tool_call_iterations = @ + 1,
                               ![i].node = "researcher_tools"]
    /\ PoolUnchanged

\* the tool step of worker i
pool_researcher_tools ==
    /\ \E i \in 1..Len(pool) :
        /\ pool[i].node = "researcher_tools"
        /\ pool_overlap' = (pool_overlap \/ OthersRunning(i))
        /\ LET thread == pool[i].researcher_messages
               most_recent_message == thread[Len(thread)]
               tool_calls == most_recent_message.tool_calls
           IN IF tool_calls = <<>> /\ ~most_recent_message.websearch
              THEN pool' = [pool EXCEPT ![i].node = "compress_research"]
              ELSE \* the first tool returns; a second one raises, and its error text is
                   \* its result
                   LET obs == [k \in 1..Len(tool_calls) |->
                                 execute_tool_safely(
                                     [raised |-> k > 1,
                                      text |-> <<"result of ", tool_calls[k].name>>
                                               \o tool_calls[k].args])]
                   IN pool' = [pool EXCEPT
                                 ![i].researcher_messages = @ \o tool_outputs(obs, tool_calls),
                                 ![i].node =
                                     IF \/ exceeded_iterations(pool[i].tool_call_iterations,
                                                               pool_limit)
                                        \/ research_complete_called(most_recent_message)
                                     THEN "compress_research" ELSE "researcher"]
    /\ PoolUnchanged

\* outcomes of the LLM calls of one compress_research: a success at once, a success
\* after a length-limit failure, and max_attempts failures of either kind
CompressRuns ==
    { <<"ok">>, <<"token_limit", "ok">>, Rep(max_attempts, "other"),
      Rep(max_attempts, "token_limit") }

\* what compress_research returns for a thread and the outcomes of its attempts
RECURSIVE compress_return(_, _)
compress_return(thread, run) ==
    IF run = <<>>
    THEN [compressed_research |-> CompressionSentinel,
          raw_notes |-> <<raw_notes_content(thread)>>]
    ELSE IF Head(run) = "ok"
    THEN [compressed_research |-> <<"condensed: ">> \o raw_notes_content(thread),
          raw_notes |-> <<raw_notes_content(thread)>>]
    ELSE compress_return(thread_after_failure(Head(run), thread), Tail(run))

\* compress_research of worker i
pool_compress_research ==
    /\ \E i \in 1..Len(pool) :
        /\ pool[i].node = "compress_research"
        /\ pool_overlap' = (pool_overlap \/ OthersRunning(i))
        /\ \E run \in CompressRuns :
              LET thread == Append(pool[i].researcher_messages,
                                   compress_research_simple_human_message)
                  returned == compress_return(thread, run)
              IN pool' = [pool EXCEPT
                            ![i].compressed_research = returned.compressed_research,
                            ![i].raw_notes = returned.raw_notes,
                            ![i].node = "END"]
    /\ PoolUnchanged

InitPool ==
    /\ GraphIdle
    /\ WorkerIdle
    /\ HealIdle
    /\ finished = <<>>
    /\ ClassifyIdle
    /\ CoordIdle
    /\ RefactorIdle
    /\ LateIdle
    /\ pool_calls \in PoolCalls
    /\ pool_limit \in 1..MaxReact
    /\ pool = <<>>
    /\ pool_overlap = FALSE

NextPool ==
    \/ pool_dispatch
    \/ pool_researcher
    \/ pool_researcher_tools
    \/ pool_compress_research

SpecPool == InitPool /\ [][NextPool]_vars

\* ------------------------------------------------------------------ claims on the workers of a round
\* the workers whose mark a text carries
Tags(text) == { j \in 1..Len(pool_calls) : Contains(text, Tag(j)) }

\* the text is of worker i alone
OwnText(text, i) == Tags(text) \subseteq {i}

\* C35: workers running concurrently in one dispatch round each start from a private
\* thread that contains only their own research topic; under every interleaving, no
\* message produced by one worker appears in another worker's thread, condensed result
\* or raw notes.
C35_WorkerIsolation ==
    \A i \in 1..Len(pool) :
        LET worker == pool[i]
            thread == worker.researcher_messages
        IN /\ worker.input = <<HumanMessage(pool_calls[i].args)>>
           /\ thread[1] = HumanMessage(pool_calls[i].args)
           /\ \A k \in 1..Len(thread) :
                 /\ OwnText(thread[k].content, i)
                 /\ \A c \in 1..Len(thread[k].tool_calls) : thread[k].tool_calls[c].id[1] = i
                 /\ thread[k].type = "tool" => thread[k].tool_call_id[1] = i
                 /\ k > 1 => thread[k].type \in {"ai", "tool"}
           /\ OwnText(worker.compressed_research, i)
           /\ \A n \in 1..Len(worker.raw_notes) : OwnText(worker.raw_notes[n], i)

\* two workers with topics of their own ran in turns and both returned their findings
C35_Witness ==
    /\ Len(pool) = 2
    /\ pool_calls[1].args # pool_calls[2].args
    /\ pool_overlap
    /\ \A i \in 1..2 :
          /\ pool[i].node = "END"
          /\ Contains(pool[i].compressed_research, Tag(i))
          /\ Contains(pool[i].raw_notes[1], Tag(i))

\* ------------------------------------------------------------------ SpeedAnalyzer: the dependency graph
\* _build_dependency_graph is called up to MaxBuilds times on one SpeedAnalyzer
MaxBuilds == 2
\* max_depth ranges over 0..MaxDepth
MaxDepth == 3

\* what the analyzers and the other components leave alone
SpeedUnchanged ==
    UNCHANGED <<graphVars, workerVars, healVars, finished, classifyVars, coordVars,
                refactorVars, poolVars, authVars>>

\* a function or class definition of a parsed file, with the names called inside it
Definition(path, name, type, calls) ==
    [file_path |-> path, symbol_name |-> name, node_type |-> type, calls |-> calls]

\* node_id = f"{file_path}::{func_name}"
node_id(d) == <<d.file_path, d.symbol_name>>

SymbolNames == {"f", "g", "h"}

\* the orders in which root.rglob and the walk of a tree meet the definitions of two
\* files: functions f and g of a.py, function h and class g of b.py
ParseOrders(f, g, h, G) ==
    { a \o b : a \in {<<f, g>>, <<g, f>>}, b \in {<<h, G>>, <<G, h>>} }
    \cup { b \o a : a \in {<<f, g>>, <<g, f>>}, b \in {<<h, G>>, <<G, h>>} }

Programs ==
    UNION { ParseOrders(Definition("a.py", "f", "function", calls["f"]),
                        Definition("a.py", "g", "function", calls["g"]),
                        Definition("b.py", "h", "function", calls["h"]),
                        Definition("b.py", "g", "class", {})) :
              calls \in [SymbolNames -> SUBSET SymbolNames] }

\* nx.DiGraph()
EmptyGraph == [nodes |-> {}, edges |-> {}]

\* _extract_calls: an edge from the caller to every node the graph holds under the name
extract_calls(graph, caller_id, names) ==
    [graph EXCEPT !.edges = @ \cup { <<caller_id, n>> : n \in { m \in graph.nodes : m[2] \in names } }]

\* _extract_symbols on one definition: the node is added, then the calls of a function
extract_symbols_of(graph, d) ==
    LET added == [graph EXCEPT !.nodes = @ \cup {node_id(d)}]
    IN IF d.node_type = "function" THEN extract_calls(added, node_id(d), d.calls) ELSE added

\* _parse_file / _extract_symbols: the next definition of the project is parsed
extract_symbols ==
    /\ snode = "building"
    /\ parsed < Len(program)
    /\ dependency_graph' = extract_symbols_of(dependency_graph, program[parsed + 1])
    /\ parsed' = parsed + 1
    /\ snode' = IF parsed + 1 = Len(program) THEN "built" ELSE "building"
    /\ UNCHANGED <<program, builds, source_id, depth_limit, visited, queue, dependencies>>
    /\ SpeedUnchanged

\* analyze is called again on the same analyzer: the graph is kept and built over
build_dependency_graph ==
    /\ snode = "built"
    /\ builds < MaxBuilds
    /\ builds' = builds + 1
    /\ parsed' = 0
    /\ snode' = "building"
    /\ UNCHANGED <<program, dependency_graph, source_id, depth_limit, visited, queue,
                   dependencies>>
    /\ SpeedUnchanged

FindIdle ==
    /\ source_id = <<>>
    /\ depth_limit = 0
    /\ visited = {}
    /\ queue = <<>>
    /\ dependencies = <<>>

InitBuild ==
    /\ GraphIdle
    /\ WorkerIdle
    /\ HealIdle
    /\ finished = <<>>
    /\ ClassifyIdle
    /\ CoordIdle
    /\ RefactorIdle
    /\ PoolIdle
    /\ AuthIdle
    /\ program \in Programs
    /\ parsed = 0
    /\ builds = 1
    /\ dependency_graph = EmptyGraph
    /\ FindIdle
    /\ snode = "building"

NextBuild == extract_symbols \/ build_dependency_graph

SpecBuild == InitBuild /\ [][NextBuild]_vars

\* ------------------------------------------------------------------ claims on the dependency graph
\* the edges from every function to every definition of a name it calls
CallEdges ==
    { <<node_id(program[i]), node_id(program[j])>> :
        i \in { k \in 1..Len(program) : program[k].node_type = "function" },
        j \in 1..Len(program) } \cap
    { e \in (dependency_graph.nodes \X dependency_graph.nodes) :
        \E i \in 1..Len(program) :
            /\ node_id(program[i]) = e[1]
            /\ e[2][2] \in program[i].calls }

\* C36: after SpeedAnalyzer builds its dependency graph there is an edge caller -> callee
\* for every call inside a function to a name that is defined as a function or class
\* anywhere in the parsed files, independent of the order in which definitions and files
\* are parsed; so a caller defined before its callee is reported as a dependency of the
\* callee just like one defined after it.
C36_EdgesWhateverTheOrder ==
    snode = "built" =>
        \A i, j \in 1..Len(program) :
            /\ program[i].node_type = "function"
            /\ program[j].symbol_name \in program[i].calls
            => <<node_id(program[i]), node_id(program[j])>> \in dependency_graph.edges

\* what does hold: the first build has the edges to the definitions parsed no later than
\* the caller, a build over a graph that has every node has them all
EdgesToEarlierDefinitions ==
    /\ dependency_graph.edges \subseteq CallEdges
    /\ snode = "built" /\ builds = 1 =>
          \A i, j \in 1..Len(program) :
              /\ program[i].node_type = "function"
              /\ program[j].symbol_name \in program[i].calls
              => (<<node_id(program[i]), node_id(program[j])>> \in dependency_graph.edges
                     <=> j <= i)
    /\ snode = "built" /\ builds > 1 => dependency_graph.edges = CallEdges

\* ------------------------------------------------------------------ SpeedAnalyzer._find_dependencies
\* the graph after _build_dependency_graph has parsed the definitions into it
RECURSIVE BuildOver(_, _)
BuildOver(graph, defs) ==
    IF defs = <<>> THEN graph
    ELSE BuildOver(extract_symbols_of(graph, Head(defs)), Tail(defs))

\* the graph of an analyzer after n builds of the project
RECURSIVE GraphAfter(_, _)
GraphAfter(n, defs) ==
    IF n = 0 THEN EmptyGraph ELSE BuildOver(GraphAfter(n - 1, defs), defs)

\* the graph of a finished build is the one _find_dependencies is given
BuiltGraph == snode = "built" => dependency_graph = GraphAfter(builds, program)

\* self.dependency_graph.nodes[n]
node_data(n) == CHOOSE d \in { program[i] : i \in 1..Len(program) } : node_id(d) = n

DependencyNode(n) ==
    [file_path |-> node_data(n).file_path, symbol_name |-> node_data(n).symbol_name,
     node_type |-> node_data(n).node_type, impact_level |-> "MEDIUM"]

\* self.dependency_graph.predecessors(n)
predecessors(graph, n) == { m \in graph.nodes : <<m, n>> \in graph.edges }

\* the orders an iteration may go through a set
Orders(set) ==
    { order \in [1..Cardinality(set) -> set] :
        \A a, b \in 1..Cardinality(set) : order[a] = order[b] => a = b }

\* mutant: the traversal stops one level later
depth_reached_after(depth, limit) == depth > limit

\* if depth >= max_depth: continue
depth_reached(depth, limit) == depth >= limit

RECURSIVE Unvisited(_, _)
Unvisited(order, seen) ==
    IF order = <<>> THEN <<>>
    ELSE (IF Head(order) \in seen THEN <<>> ELSE <<Head(order)>>) \o Unvisited(Tail(order), seen)

\* _find_dependencies up to its loop
find_dependencies ==
    /\ snode = "find"
    /\ IF source_id \notin dependency_graph.nodes
       THEN /\ snode' = "returned"
            /\ UNCHANGED <<visited, queue>>
       ELSE /\ visited' = {source_id}
            /\ queue' = << <<source_id, 0>> >>
            /\ snode' = "bfs"
    /\ dependencies' = <<>>
    /\ UNCHANGED <<program, parsed, builds, dependency_graph, source_id, depth_limit>>
    /\ SpeedUnchanged

\* one pass of the while loop of _find_dependencies, and the return when the queue is empty
find_dependencies_loop ==
    /\ snode = "bfs"
    /\ queue # <<>>
    /\ LET current_id == Head(queue)[1]
           depth == Head(queue)[2]
       IN IF depth_reached(depth, depth_limit)
          THEN /\ queue' = Tail(queue)
               /\ UNCHANGED <<visited, dependencies>>
          ELSE \E order \in Orders(predecessors(dependency_graph, current_id)) :
                  LET found == Unvisited(order, visited)
                  IN /\ visited' = visited \cup { found[k] : k \in 1..Len(found) }
                     /\ queue' = Tail(queue) \o [k \in 1..Len(found) |-> <<found[k], depth + 1>>]
                     /\ dependencies' =
                            dependencies \o [k \in 1..Len(found) |-> DependencyNode(found[k])]
    /\ snode' = IF queue' = <<>> THEN "returned" ELSE "bfs"
    /\ UNCHANGED <<program, parsed, builds, dependency_graph, source_id, depth_limit>>
    /\ SpeedUnchanged

\* the symbols _find_dependencies is asked about: those of the graph and one it lacks
Targets(graph) == graph.nodes \cup { <<"a.py", "missing">> }

\* the parse orders taken for _find_dependencies: a.py then b.py top down, and the reverse
FindPrograms ==
    { order \in Programs :
        \/ order[1].symbol_name = "f" /\ order[3].symbol_name = "h"
        \/ order[1].node_type = "class" /\ order[3].symbol_name = "g" }

\* an analyzer that has built its graph once or more, asked for the dependencies of a
\* symbol
InitFind ==
    /\ GraphIdle
    /\ WorkerIdle
    /\ HealIdle
    /\ finished = <<>>
    /\ ClassifyIdle
    /\ CoordIdle
    /\ RefactorIdle
    /\ PoolIdle
    /\ AuthIdle
    /\ program \in FindPrograms
    /\ parsed = Len(program)
    /\ builds \in 1..MaxBuilds
    /\ dependency_graph = GraphAfter(builds, program)
    /\ source_id \in Targets(dependency_graph)
    /\ depth_limit \in 0..MaxDepth
    /\ visited = {}
    /\ queue = <<>>
    /\ dependencies = <<>>
    /\ snode = "find"

NextFind == find_dependencies \/ find_dependencies_loop

SpecFind == InitFind /\ [][NextFind]_vars

\* ------------------------------------------------------------------ claims on _find_dependencies
\* the nodes from which the target is reached through at most k edges
RECURSIVE Within(_)
Within(k) ==
    IF k = 0 THEN {source_id}
    ELSE LET nearer == Within(k - 1)
         IN nearer \cup { n \in dependency_graph.nodes :
                            \E m \in nearer : <<n, m>> \in dependency_graph.edges }

\* the direct and transitive callers of the target within the depth asked for
Callers ==
    IF source_id \notin dependency_graph.nodes \/ depth_limit = 0 THEN {}
    ELSE Within(depth_limit) \ {source_id}

Listed == { <<dependencies[k].file_path, dependencies[k].symbol_name>> : k \in 1..Len(dependencies) }

\* C37: _find_dependencies returns exactly the symbols from which the target symbol is
\* reachable through at least 1 and at most max_depth call edges (its direct and
\* transitive callers), each listed once and the target itself never listed, also when
\* the call graph has cycles; it returns the empty list when max_depth is 0 or the target
\* is not in the graph.
C37_CallersWithinDepth ==
    /\ source_id \notin Listed
    /\ Len(dependencies) = Cardinality(Listed)
    /\ Listed \subseteq Callers
    /\ snode = "returned" =>
          /\ Listed = Callers
          /\ depth_limit = 0 \/ source_id \notin dependency_graph.nodes => dependencies = <<>>

\* f and g call each other and h calls g: asked about f with max_depth 1, g alone is
\* returned, although f calls itself through g and h is two edges away
C37_Witness ==
    /\ snode = "returned"
    /\ builds = 2
    /\ source_id = <<"a.py", "f">>
    /\ depth_limit = 1
    /\ <<source_id, <<"a.py", "g">>>> \in dependency_graph.edges
    /\ <<<<"a.py", "g">>, source_id>> \in dependency_graph.edges
    /\ <<<<"b.py", "h">>, <<"a.py", "g">>>> \in dependency_graph.edges
    /\ <<<<"b.py", "h">>, source_id>> \notin dependency_graph.edges
    /\ Listed = {<<"a.py", "g">>}

\* ------------------------------------------------------------------ authenticate_user
\* a word of a header: an opaque text, or the encoding of a JWT with what jwt.decode
\* finds in it
Word(text) == [text |-> text, jwt |-> FALSE, signed |-> FALSE, expired |-> FALSE, user_id |-> ""]
Jwt(text, signed, expired, user_id) ==
    [text |-> text, jwt |-> TRUE, signed |-> signed, expired |-> expired, user_id |-> user_id]

\* None where a header is expected
NoHeader == <<Word("<None>")>>

\* the tokens a client may send
Tokens ==
    { Word("key-1"), Word("guess"),
      Jwt("jwt-admin", TRUE, FALSE, "admin"),
      Jwt("jwt-old", TRUE, TRUE, "admin"),
      Jwt("jwt-forged", FALSE, FALSE, "admin"),
      Jwt("jwt-stranger", TRUE, FALSE, "nobody"),
      Jwt("jwt-anonymous", TRUE, FALSE, "") }

\* the Authorization headers: absent, empty, or words separated by blanks
Headers ==
    { NoHeader, <<>> }
    \cup { <<Word(scheme)>> : scheme \in {"Bearer", "key-1"} }
    \cup { <<Word(scheme), token>> : scheme \in {"Bearer", "bearer", "Basic"}, token \in Tokens }
    \cup { <<Word("Bearer"), token, Word("x")>> : token \in Tokens }

\* os.environ.get("API_KEY")
ApiKeys == { None, <<>>, <<"key-1">> }

HTTPException(status_code, detail) ==
    [kind |-> "raised", status_code |-> status_code, detail |-> detail]

\* UserStore.verify_token: the user of a token that decodes and names a stored user
verify_token(token, store) ==
    IF ~token.jwt \/ ~token.signed THEN None        \* jwt.InvalidTokenError
    ELSE IF token.expired THEN None                  \* jwt.ExpiredSignatureError
    ELSE IF token.user_id = "" THEN None
    ELSE IF token.user_id \in store THEN <<token.user_id>> ELSE None

\* authorization.replace("Bearer ", ""): every word "Bearer" with a word after it goes
RECURSIVE replace_bearer(_)
replace_bearer(words) ==
    IF Len(words) <= 1 THEN [k \in 1..Len(words) |-> words[k].text]
    ELSE (IF Head(words).text = "Bearer" THEN <<>> ELSE <<Head(words).text>>)
         \o replace_bearer(Tail(words))

\* what check_api_key returns when it is awaited
check_api_key(header, expected_api_key) ==
    IF header = NoHeader \/ header = <<>> THEN FALSE
    ELSE /\ expected_api_key # None
         /\ expected_api_key # <<>>
         /\ replace_bearer(header) = expected_api_key

\* "if check_api_key(authorization):" tests the coroutine object the call of an async
\* function gives, and an object is true
call_is_true(value) == TRUE

ApiUser == [kind |-> "returned", identity |-> "api-user", role |-> "api"]

\* authenticate_user
authenticate_user ==
    /\ auth_return = NoReturn
    /\ auth_return' =
          IF authorization = NoHeader \/ authorization = <<>>
          THEN HTTPException(401, "no authorization header")
          ELSE IF Len(authorization) # 2
          THEN HTTPException(401, "invalid authorization header format")
          ELSE IF authorization[1].text \notin {"Bearer", "bearer"}
          THEN HTTPException(401, "invalid authorization header format")
          ELSE IF call_is_true(check_api_key(authorization, environ))
          THEN ApiUser
          ELSE LET user == verify_token(authorization[2], users)
               IN IF user = None
                  THEN HTTPException(401, "invalid or expired token")
                  ELSE [kind |-> "returned", identity |-> user[1], role |-> "user"]
    /\ UNCHANGED <<authorization, environ, users>>
    /\ UNCHANGED <<graphVars, workerVars, healVars, finished, classifyVars, coordVars,
                   refactorVars, poolVars, speedVars>>

InitAuth ==
    /\ GraphIdle
    /\ WorkerIdle
    /\ HealIdle
    /\ finished = <<>>
    /\ ClassifyIdle
    /\ CoordIdle
    /\ RefactorIdle
    /\ PoolIdle
    /\ SpeedIdle
    /\ authorization \in Headers
    /\ environ \in ApiKeys
    /\ users \in { {"admin"}, {"user1"} }
    /\ auth_return = NoReturn

NextAuth == authenticate_user

SpecAuth == InitAuth /\ [][NextAuth]_vars

\* ------------------------------------------------------------------ claims on authenticate_user
\* the header is "Bearer <token>" (the scheme in any case)
BearerHeader ==
    /\ authorization # NoHeader
    /\ Len(authorization) = 2
    /\ authorization[1].text \in {"Bearer", "bearer"}

\* the token is the configured API key
TokenIsApiKey ==
    /\ BearerHeader
    /\ environ # None /\ environ # <<>>
    /\ <<authorization[2].text>> = environ

\* the token is a valid, unexpired JWT of a known user
TokenIsUserJwt ==
    /\ BearerHeader
    /\ authorization[2].jwt /\ authorization[2].signed /\ ~authorization[2].expired
    /\ authorization[2].user_id \in users

\* C38: authenticate_user accepts a request only if its bearer token equals the
\* configured API key or is a valid, unexpired JWT of a known user; a missing header, a
\* non-Bearer scheme or any other token is rejected with status 401, and the api-user
\* identity is returned only for a token equal to the configured API key.
C38_OnlyKeyOrJwt ==
    auth_return # NoReturn =>
        /\ auth_return.kind = "returned" => TokenIsApiKey \/ TokenIsUserJwt
        /\ ~(TokenIsApiKey \/ TokenIsUserJwt) =>
              auth_return.kind = "raised" /\ auth_return.status_code = 401
        /\ auth_return.kind = "returned" /\ auth_return.identity = "api-user" => TokenIsApiKey

\* what does hold: a request without a two-word Bearer header is rejected with 401, and
\* every request with one is accepted as the api-user
EveryBearerIsApiUser ==
    auth_return # NoReturn =>
        IF BearerHeader THEN auth_return = ApiUser
        ELSE auth_return.kind = "raised" /\ auth_return.status_code = 401

====
